---- MODULE Spec2Model ----
(***************************************************************************)
(* State-machine model of the simulation core of the network-building game *)
(* (stations, lines, trains, passengers): the ETA estimator, the hex-grid  *)
(* router, the train motion engine, the arrival handler, the passenger     *)
(* sweep and the frame loop.                                               *)
(*                                                                         *)
(* Conventions.                                                            *)
(*  - Simulated time is in integer milliseconds.  dwellRemaining and       *)
(*    stationCooldown are kept in tenths of a millisecond (TimerDen), the  *)
(*    resolution at which the dwell products 500*0.8*0.8*0.8 are exact.    *)
(*  - A train's normalized position p is kept as the distance p * total    *)
(*    along its line, in 1/SpeedDen of a world unit.                       *)
(*  - Infinity is the sentinel Infinity; Plus saturates at it.             *)
(*  - Math.random() draws are inputs of the actions, chosen with \E.       *)
(***************************************************************************)
EXTENDS Integers, Sequences, FiniteSets, TLC

VARIABLES
  stations,         \* game.stations: id -> [queue, connections, overflowTimer, isOvercrowded]
  lines,            \* game.lines: sequence of line records
  trains,           \* game.trains: sequence of train records
  gameTime,         \* game.gameTime (ms)
  day,              \* game.day
  gameOver,         \* game.gameOver
  goReason,         \* text written to #goReason by endGame: [kind, station]
  endGameCalls,     \* number of endGame calls made by the last sweep
  trainsAvailable,  \* game.trainsAvailable
  linesAvailable,   \* game.linesAvailable
  tunnels,          \* game.tunnels
  carriages,        \* game.carriages
  totalPassengers,  \* game.totalPassengers (also names the passengers)
  paused,           \* game.paused
  nextSpawn,        \* loop._nextSpawn / simulateWeeks' nextSpawn (0: not set yet)
  lastOptimization, \* loop._lastOptimization / simulateWeeks' lastOpt (0: not set yet)
  sweepLog,         \* what the sweeps of the last tick saw and did at each station
  autoRouting,      \* game.autoRouting: [enabled, userToggled, lastAutoAction]
  lastOp,           \* the operation that produced the current state, with its observations
  opCount,          \* number of player operations performed so far
  etaOut,           \* the tables computeETAs returned on the current network, by destination
  hexIn,            \* endpoints handed to createHexPath
  hexOut            \* points returned by createHexPath

worldVars == <<stations, lines, trains, gameTime, day, gameOver, goReason, endGameCalls,
               trainsAvailable, linesAvailable, tunnels, carriages, totalPassengers,
               paused, nextSpawn, lastOptimization, sweepLog, autoRouting>>

vars == <<worldVars, lastOp, opCount, etaOut, hexIn, hexOut>>

(***************************************************************************)
(* Generic helpers                                                         *)
(***************************************************************************)
Infinity == 1000000000

IsFinite(x) == x < Infinity

Plus(a, b) == IF a >= Infinity \/ b >= Infinity THEN Infinity ELSE a + b

Abs(x) == IF x < 0 THEN -x ELSE x

Min2(a, b) == IF a <= b THEN a ELSE b

Max2(a, b) == IF a >= b THEN a ELSE b

SetMin(S) == CHOOSE x \in S : \A y \in S : x <= y

SetMax(S) == CHOOSE x \in S : \A y \in S : x >= y

Includes(seq, x) == \E i \in 1..Len(seq) : seq[i] = x

RECURSIVE SumSeq(_)
SumSeq(seq) == IF seq = <<>> THEN 0 ELSE Head(seq) + SumSeq(Tail(seq))

\* Math.round(n / d) for d > 0: the nearest integer, halves towards +infinity
MathRound(n, d) == (2 * n + d) \div (2 * d)

\* Math.hypot on the model's coordinates (all pairwise distances are integers)
Hypot(dx, dy) == CHOOSE r \in 0..1000 : r * r <= dx * dx + dy * dy /\ (r + 1) * (r + 1) > dx * dx + dy * dy

(***************************************************************************)
(* Configuration (AIRSPACE_CONFIG after makeScaledConfig) and the stations *)
(***************************************************************************)
\* world coordinates: multiples of 51 so that dist / trainSpeed is an integer
StationX == <<0, 153, 153, 0>>

NumStations == Len(StationX)

StationIds == 0..(NumStations - 1)

StationY == <<0, 0, 204, 204>>

StationIsFinal == <<FALSE, FALSE, TRUE, FALSE>>

StationIsInterchange == <<FALSE, TRUE, TRUE, FALSE>>

StationMctMs == <<10000, 8000, 9000, 10000>>

StationTurnaroundMs == <<500, 500, 700, 500>>

SX(i) == StationX[i + 1]

SY(i) == StationY[i + 1]

IsFinalSt(i) == StationIsFinal[i + 1]

IsInterchangeSt(i) == StationIsInterchange[i + 1]

IsHubSt(i) == IsInterchangeSt(i) \/ IsFinalSt(i)

\* trainSpeed 0.085 * worldScale 1.5 = 0.1275 units/ms = TrainSpeedNum / TrainSpeedDen
TrainSpeedNum == 51

TrainSpeedDen == 400

\* mctMultiplier 0.5 = MctMultNum / MctMultDen
MctMultNum == 1

MctMultDen == 2

DistTable == [a \in StationIds |-> [b \in StationIds |-> Hypot(SX(b) - SX(a), SY(b) - SY(a))]]

Dist(a, b) == DistTable[a][b]

(***************************************************************************)
(* ETA estimator (routing.js)                                              *)
(***************************************************************************)
\* adjacency built from every line's consecutive station pairs
BuildStationGraph(ls) ==
  LET pairs == UNION {{<<ls[k].stations[i], ls[k].stations[i + 1]>> :
                         i \in 1..(Len(ls[k].stations) - 1)} : k \in 1..Len(ls)}
  IN [a \in StationIds |->
        {b \in StationIds : <<a, b>> \in pairs \/ <<b, a>> \in pairs}]

EdgeTimeMs(a, b) == (Dist(a, b) * TrainSpeedDen) \div TrainSpeedNum

\* base * (isInterchange ? 0.7 : 1.0) * mctMultiplier
StationTransferMs(node) ==
  LET base == StationMctMs[node + 1]
      factorNum == IF IsInterchangeSt(node) THEN 7 ELSE 10
  IN (base * factorNum * MctMultNum) \div (10 * MctMultDen)

\* mutant: the transfer time is charged at the destination too
NodeTransferMs_AlsoAtDest(node, dest) == StationTransferMs(node)

NodeTransferMs(node, dest) ==
  IF node = dest THEN 0 ELSE StationTransferMs(node)

\* mutant: the relaxation overwrites eta[v] without comparing
Relax_Overwrite(eta, adj, u, dest) ==
  [v \in StationIds |->
     IF v \in adj[u] /\ v # dest
     THEN Plus(Plus(EdgeTimeMs(v, u), NodeTransferMs(u, dest)), eta[u])
     ELSE eta[v]]

\* the relaxation of the neighbours of u (line 53-57)
Relax(eta, adj, u, dest) ==
  [v \in StationIds |->
     IF v \in adj[u]
     THEN LET alt == Plus(Plus(EdgeTimeMs(v, u), NodeTransferMs(u, dest)), eta[u])
          IN IF alt < eta[v] THEN alt ELSE eta[v]
     ELSE eta[v]]

\* the unvisited station of least eta, the lowest index first (line 49-50)
PickNext(eta, visited) ==
  LET cand == {i \in StationIds : i \notin visited /\ eta[i] < Infinity}
  IN IF cand = {} THEN -1
     ELSE LET best == SetMin({eta[i] : i \in cand})
          IN SetMin({i \in cand : eta[i] = best})

RECURSIVE DijkstraLoop(_, _, _, _)
DijkstraLoop(eta, visited, adj, dest) ==
  LET u == PickNext(eta, visited)
  IN IF u = -1 THEN eta
     ELSE DijkstraLoop(Relax(eta, adj, u, dest), visited \cup {u}, adj, dest)

ComputeETAs(ls, dest) ==
  DijkstraLoop([i \in StationIds |-> IF i = dest THEN 0 ELSE Infinity], {},
               BuildStationGraph(ls), dest)

EstimateETA(ls, from, dest) == ComputeETAs(ls, dest)[from]

\* stepReducesETA with the edge time on the wrong side of the comparison
StepReducesETA_EdgeOnFromSide(ls, from, via, dest) ==
  LET etaFrom == EstimateETA(ls, from, dest)
      etaVia == EstimateETA(ls, via, dest)
      step == EdgeTimeMs(from, via)
  IN IsFinite(etaFrom) /\ IsFinite(etaVia) /\ etaVia + 1 < etaFrom + step

StepReducesETA(ls, from, via, dest) ==
  LET etaFrom == EstimateETA(ls, from, dest)
      etaVia == EstimateETA(ls, via, dest)
      step == EdgeTimeMs(from, via)
  IN IsFinite(etaFrom) /\ IsFinite(etaVia) /\ step + etaVia + 1 < etaFrom

NeighborsOnLineFrom(line, st) ==
  LET idx == {i \in 1..Len(line.stations) : line.stations[i] = st}
  IN IF idx = {} THEN <<>>
     ELSE LET i == SetMin(idx)
          IN (IF i > 1 THEN <<line.stations[i - 1]>> ELSE <<>>)
             \o (IF i < Len(line.stations) THEN <<line.stations[i + 1]>> ELSE <<>>)

(***************************************************************************)
(* The world record: the fields of `game` the core reads and writes        *)
(***************************************************************************)
World ==
  [stations |-> stations, lines |-> lines, trains |-> trains, gameTime |-> gameTime,
   day |-> day, gameOver |-> gameOver, goReason |-> goReason,
   endGameCalls |-> endGameCalls, trainsAvailable |-> trainsAvailable,
   linesAvailable |-> linesAvailable, tunnels |-> tunnels, carriages |-> carriages,
   totalPassengers |-> totalPassengers, paused |-> paused, nextSpawn |-> nextSpawn,
   lastOptimization |-> lastOptimization, sweepLog |-> sweepLog,
   autoRouting |-> autoRouting]

SetWorld(g) ==
  /\ stations' = g.stations
  /\ lines' = g.lines
  /\ trains' = g.trains
  /\ gameTime' = g.gameTime
  /\ day' = g.day
  /\ gameOver' = g.gameOver
  /\ goReason' = g.goReason
  /\ endGameCalls' = g.endGameCalls
  /\ trainsAvailable' = g.trainsAvailable
  /\ linesAvailable' = g.linesAvailable
  /\ tunnels' = g.tunnels
  /\ carriages' = g.carriages
  /\ totalPassengers' = g.totalPassengers
  /\ paused' = g.paused
  /\ nextSpawn' = g.nextSpawn
  /\ lastOptimization' = g.lastOptimization
  /\ sweepLog' = g.sweepLog
  /\ autoRouting' = g.autoRouting

NoReason == [kind |-> "none", station |-> -1]

NewStation(i) ==
  [queue |-> <<>>, connections |-> <<>>, overflowTimer |-> 0, isOvercrowded |-> FALSE,
   turnaroundMs |-> StationTurnaroundMs[i + 1]]

\* AIRSPACE_CONFIG
InitialLines == 6

InitialTrains == 9

InitialTunnels == 2

HubAndSpokeMode == TRUE

HubLinePriorityBonus == 300

HubDesiredTrainBonus == 1

MaxWaitSeconds == 200

MissedConnectionMultiplier == 3

WeekLength == 45000

\* new AutoRoutingSystem(game)
NewAutoRouting == [enabled |-> FALSE, userToggled |-> FALSE, lastAutoAction |-> 0]

InitWorld ==
  [stations |-> [i \in StationIds |-> NewStation(i)], lines |-> <<>>, trains |-> <<>>,
   gameTime |-> 0, day |-> 1, gameOver |-> FALSE, goReason |-> NoReason,
   endGameCalls |-> 0, trainsAvailable |-> InitialTrains, linesAvailable |-> InitialLines,
   tunnels |-> InitialTunnels, carriages |-> 0, totalPassengers |-> 0,
   paused |-> FALSE, nextSpawn |-> 0, lastOptimization |-> 0, sweepLog |-> <<>>,
   autoRouting |-> NewAutoRouting]

\* the variables hold the world g
WorldIs(g) ==
  /\ stations = g.stations
  /\ lines = g.lines
  /\ trains = g.trains
  /\ gameTime = g.gameTime
  /\ day = g.day
  /\ gameOver = g.gameOver
  /\ goReason = g.goReason
  /\ endGameCalls = g.endGameCalls
  /\ trainsAvailable = g.trainsAvailable
  /\ linesAvailable = g.linesAvailable
  /\ tunnels = g.tunnels
  /\ carriages = g.carriages
  /\ totalPassengers = g.totalPassengers
  /\ paused = g.paused
  /\ nextSpawn = g.nextSpawn
  /\ lastOptimization = g.lastOptimization
  /\ sweepLog = g.sweepLog
  /\ autoRouting = g.autoRouting

\* the state of `game` after construction
SetWorldInit == WorldIs(InitWorld)

\* game.lines[lineId]: an array lookup by index, not by the line's id field
HasLineAt(g, lineId) == lineId >= 0 /\ lineId < Len(g.lines)

LineAt(g, lineId) == g.lines[lineId + 1]

CeilDiv(a, b) == (a + b - 1) \div b

(***************************************************************************)
(* Restricted corridor (intersections.js)                                  *)
(***************************************************************************)
\* thamesPolygon scaled by worldScale 1.5
ThamesPolygon == << <<-1260, -150>>, <<1260, -45>>, <<1260, 75>>, <<-1260, -45>> >>

Orientation(a, b, c) ==
  LET val == (b[2] - a[2]) * (c[1] - b[1]) - (b[1] - a[1]) * (c[2] - b[2])
  IN IF val = 0 THEN 0 ELSE IF val > 0 THEN 1 ELSE 2

OnSeg(a, b, c) ==
  /\ Min2(a[1], c[1]) <= b[1] /\ b[1] <= Max2(a[1], c[1])
  /\ Min2(a[2], c[2]) <= b[2] /\ b[2] <= Max2(a[2], c[2])

SegSegIntersect(p, p2, q, q2) ==
  LET o1 == Orientation(p, p2, q)
      o2 == Orientation(p, p2, q2)
      o3 == Orientation(q, q2, p)
      o4 == Orientation(q, q2, p2)
  IN \/ (o1 # o2 /\ o3 # o4)
     \/ (o1 = 0 /\ OnSeg(p, q, p2))
     \/ (o2 = 0 /\ OnSeg(p, q2, p2))
     \/ (o3 = 0 /\ OnSeg(q, p, q2))
     \/ (o4 = 0 /\ OnSeg(q, p2, q2))

SegmentCrossesPolygon(A, B, poly) ==
  \E i \in 1..Len(poly) : SegSegIntersect(A, B, poly[i], poly[(i % Len(poly)) + 1])

StationPt(i) == <<SX(i), SY(i)>>

CrossesTable ==
  [a \in StationIds |-> [b \in StationIds |-> SegmentCrossesPolygon(StationPt(a), StationPt(b), ThamesPolygon)]]

Crosses(a, b) == CrossesTable[a][b]

(***************************************************************************)
(* Trains and the fleet allocator (trains.js)                              *)
(***************************************************************************)
\* train.speed in 1/40000 of a world unit per ms: trainSpeed * (day <= 2 ? 1.15 : 1.0),
\* that is 0.146625 or 0.1275
NewTrainSpeed(d) == IF d <= 2 THEN 5865 ELSE 5100

\* History kept beside the program's state: a train's `serial` tells the train objects
\* apart (their ids may repeat), and a line's `serials` are those of the trains that
\* createTrain put on the line.  A new serial is one no train and no line holds.
FreshSerial(g) ==
  LET held == {g.trains[i].serial : i \in 1..Len(g.trains)}
              \cup UNION {{g.lines[k].serials[j] : j \in 1..Len(g.lines[k].serials)} :
                            k \in 1..Len(g.lines)}
  IN IF held = {} THEN 0 ELSE SetMax(held) + 1

\* the line length a train's stored position is a multiple of (see the section on
\* train motion): Math.max(cum, 1e-6) of the line game.lines[train.lineId]
PosTotalOf(line) == Max2(line.totalLength, 1)

\* train.position is a fraction of the line in the program: when the line found at
\* game.lines[train.lineId] has got another length the stored distance is rescaled,
\* rounded down to 1/SpeedDen of a world unit
RescaleTrain(t, ls) ==
  IF t.lineId >= 0 /\ t.lineId < Len(ls) /\ t.posTotal # PosTotalOf(ls[t.lineId + 1])
  THEN [t EXCEPT !.position = (@ \div t.posTotal) * PosTotalOf(ls[t.lineId + 1])
                              + ((@ % t.posTotal) * PosTotalOf(ls[t.lineId + 1])) \div t.posTotal,
                 !.posTotal = PosTotalOf(ls[t.lineId + 1])]
  ELSE t

Rescaled(g) == [g EXCEPT !.trains = [ti \in 1..Len(@) |-> RescaleTrain(@[ti], g.lines)]]

CreateTrain(g, lineId) ==
  IF ~HasLineAt(g, lineId) \/ Len(LineAt(g, lineId).stations) < 2 THEN g
  ELSE LET train == [id |-> Len(g.trains), lineId |-> lineId, position |-> 0,
                     direction |-> 1, passengers |-> <<>>,
                     capacity |-> 10 + g.carriages, speed |-> NewTrainSpeed(g.day),
                     lastStationVisited |-> -1, stationCooldown |-> 0,
                     dwellRemaining |-> 0, serial |-> FreshSerial(g),
                     posTotal |-> PosTotalOf(LineAt(g, lineId))]
       IN [g EXCEPT !.lines[lineId + 1].trains = Append(@, train.id),
                    !.lines[lineId + 1].serials = Append(@, train.serial),
                    !.trains = Append(@, train)]

\* whether createTrain returned a train
CreateTrainOk(g, lineId) == HasLineAt(g, lineId) /\ Len(LineAt(g, lineId).stations) >= 2

CanTransfer(g, line, dest) ==
  \E i \in 1..Len(line.stations) :
    \E c \in 1..Len(g.stations[line.stations[i]].connections) :
      LET other == g.stations[line.stations[i]].connections[c]
      IN HasLineAt(g, other) /\ Includes(LineAt(g, other).stations, dest)

PassengerDemand(g, line, p) ==
  IF Includes(line.stations, p.destStation) THEN 2
  ELSE IF CanTransfer(g, line, p.destStation) THEN 1 ELSE 0

RECURSIVE QueueDemand(_, _, _)
QueueDemand(g, line, q) ==
  IF q = <<>> THEN 0 ELSE PassengerDemand(g, line, Head(q)) + QueueDemand(g, line, Tail(q))

RECURSIVE DemandOver(_, _, _)
DemandOver(g, line, sts) ==
  IF sts = <<>> THEN 0
  ELSE QueueDemand(g, line, g.stations[Head(sts)].queue) + DemandOver(g, line, Tail(sts))

CalculateLineDemand(g, line) == DemandOver(g, line, line.stations)

LineConnectsHub(line) == \E i \in 1..Len(line.stations) : IsHubSt(line.stations[i])

\* the statistics without the boost of a line that has no train
LineStats_NoBoost(g, line) ==
  LET length == line.totalLength
      stationCount == Len(line.stations)
      passengerDemand == CalculateLineDemand(g, line)
      connectsHub == LineConnectsHub(line)
      baseTrainsForLength == Max2(1, CeilDiv(length, 350))
      demandTrains == CeilDiv(passengerDemand, 10)
      stationTrains == Max2(1, CeilDiv(stationCount, 3))
      earlyMax == IF g.day <= 3 THEN 5 ELSE 4
      maxTrains == Min2(earlyMax, Max2(2, CeilDiv(stationCount, 2)))
      desiredRaw == Max2(baseTrainsForLength, stationTrains) + demandTrains
                    + (IF HubAndSpokeMode /\ connectsHub THEN HubDesiredTrainBonus ELSE 0)
      desiredTrains == Max2(1, Min2(desiredRaw, maxTrains))
      zeroTrainBoost == 0
      currentTrains == Len(line.trains)
  IN [lineId |-> line.id, currentTrains |-> currentTrains, desiredTrains |-> desiredTrains,
      deficit |-> Max2(0, desiredTrains - currentTrains),
      priority |-> zeroTrainBoost + length + passengerDemand * 50
                   + (IF connectsHub THEN HubLinePriorityBonus ELSE 0)]

LineStats(g, line) ==
  LET length == line.totalLength
      stationCount == Len(line.stations)
      passengerDemand == CalculateLineDemand(g, line)
      connectsHub == LineConnectsHub(line)
      baseTrainsForLength == Max2(1, CeilDiv(length, 350))
      demandTrains == CeilDiv(passengerDemand, 10)
      stationTrains == Max2(1, CeilDiv(stationCount, 3))
      earlyMax == IF g.day <= 3 THEN 5 ELSE 4
      maxTrains == Min2(earlyMax, Max2(2, CeilDiv(stationCount, 2)))
      desiredRaw == Max2(baseTrainsForLength, stationTrains) + demandTrains
                    + (IF HubAndSpokeMode /\ connectsHub THEN HubDesiredTrainBonus ELSE 0)
      desiredTrains == Max2(1, Min2(desiredRaw, maxTrains))
      zeroTrainBoost == IF Len(line.trains) = 0 THEN 100000 ELSE 0
      currentTrains == Len(line.trains)
  IN [lineId |-> line.id, currentTrains |-> currentTrains, desiredTrains |-> desiredTrains,
      deficit |-> Max2(0, desiredTrains - currentTrains),
      priority |-> zeroTrainBoost + length + passengerDemand * 50
                   + (IF connectsHub THEN HubLinePriorityBonus ELSE 0)]

\* Array.prototype.sort with (a, b) => b.priority - a.priority: stable, descending
RECURSIVE InsertByPriority(_, _)
InsertByPriority(sorted, x) ==
  IF sorted = <<>> THEN <<x>>
  ELSE IF Head(sorted).priority >= x.priority
       THEN <<Head(sorted)>> \o InsertByPriority(Tail(sorted), x)
       ELSE <<x>> \o sorted

\* (here and below a value is bound through a one-element set where TLC would
\* otherwise compute it again at every use)
RECURSIVE SortByPriority(_)
SortByPriority(seq) ==
  IF seq = <<>> THEN <<>>
  ELSE CHOOSE r \in {InsertByPriority(sorted, seq[Len(seq)]) :
                       sorted \in {SortByPriority(SubSeq(seq, 1, Len(seq) - 1))}} : TRUE

\* the inner loop of the allocation: up to n trains for the line id
RECURSIVE AddTrains(_, _, _)
AddTrains(g, lineId, n) ==
  IF n <= 0 \/ g.trainsAvailable <= 0 THEN g
  ELSE IF CreateTrainOk(g, lineId)
       THEN CHOOSE r \in {AddTrains(g2, lineId, n - 1) :
                            g2 \in {[CreateTrain(g, lineId) EXCEPT !.trainsAvailable = @ - 1]}} :
              TRUE
       ELSE AddTrains(g, lineId, n - 1)

RECURSIVE AllocateLoop(_, _)
AllocateLoop(g, stats) ==
  IF stats = <<>> \/ g.trainsAvailable <= 0 THEN g
  ELSE LET st == Head(stats)
       IN IF st.deficit <= 0 THEN AllocateLoop(g, Tail(stats))
          ELSE CHOOSE r \in {AllocateLoop(g2, Tail(stats)) :
                               g2 \in {AddTrains(g, st.lineId,
                                                  Min2(st.deficit, g.trainsAvailable))}} : TRUE

OptimizeTrainAllocation(g) ==
  IF g.trainsAvailable <= 0 THEN g
  ELSE CHOOSE r \in {AllocateLoop(g, stats) :
                       stats \in {SortByPriority([k \in 1..Len(g.lines) |->
                                                    LineStats(g, g.lines[k])])}} : TRUE

(***************************************************************************)
(* Line manager (lines_final.js, main.js removeLine)                       *)
(***************************************************************************)
RECURSIVE PathLength(_)
PathLength(sts) ==
  IF Len(sts) < 2 THEN 0 ELSE Dist(sts[1], sts[2]) + PathLength(Tail(sts))

CalculateLineLength(line) == PathLength(line.stations)

PushUnique(seq, x) == IF Includes(seq, x) THEN seq ELSE Append(seq, x)

RECURSIVE AddConnections(_, _, _)
AddConnections(sts, ids, lineId) ==
  IF ids = <<>> THEN sts
  ELSE AddConnections([sts EXCEPT ![Head(ids)].connections = PushUnique(@, lineId)],
                      Tail(ids), lineId)

(***************************************************************************)
(* Waypoints (lines_final.js rebuildWaypointsForLine, hexgrid.js bundling  *)
(* and terminal bubbles).  A line's waypoints are kept corridor by         *)
(* corridor: one entry per routed pair of stations, holding the pair, the  *)
(* side the corridor was shifted to by the bundling (0: not shifted) and   *)
(* whether a terminal bubble was put at either end.  Two segments count as *)
(* parallel and near when they join the same two stations; the sideways    *)
(* position of the other segment is its own shift, seen from this          *)
(* segment's direction.                                                    *)
(***************************************************************************)
\* line.waypoints = null
NullWaypoints == <<>>

\* createHexPath(A.x, A.y, B.x, B.y, size): the routed corridor from a to b
HexCorridor(a, b) ==
  [a |-> a, b |-> b, off |-> 0, startBubble |-> FALSE, endBubble |-> FALSE]

\* applyTerminalBubbles(path, startStation, endStation, game); -1 stands for null
ApplyTerminalBubbles(seg, startSta, endSta) ==
  [seg EXCEPT !.startBubble = startSta # -1 /\ (IsInterchangeSt(startSta) \/ IsFinalSt(startSta)),
              !.endBubble = endSta # -1 /\ (IsInterchangeSt(endSta) \/ IsFinalSt(endSta))]

\* the loop of rebuildWaypointsForLine over the consecutive pairs of line.stations
RoutedPath(sts) ==
  [i \in 1..(Len(sts) - 1) |->
     ApplyTerminalBubbles(HexCorridor(sts[i], sts[i + 1]),
                          IF i = 1 THEN sts[i] ELSE -1,
                          IF i = Len(sts) - 1 THEN sts[i + 1] ELSE -1)]

\* Math.sign(dot(mid2 - mid, n)) || 1 for a segment `s` of another line
ParallelSide(seg, s) ==
  LET lateral == IF s.a = seg.a THEN s.off ELSE 0 - s.off
  IN IF lateral = 0 THEN 1 ELSE lateral

\* the inner loop of findParallelSegments over one line's waypoints
ParallelSidesOn(seg, pts) ==
  LET par == SelectSeq(pts, LAMBDA s : {s.a, s.b} = {seg.a, seg.b})
  IN [i \in 1..Len(par) |-> ParallelSide(seg, par[i])]

\* findParallelSegments(segment, existingLines, ...): the side of every hit
RECURSIVE FindParallelSegments(_, _)
FindParallelSegments(seg, existing) ==
  IF existing = <<>> THEN <<>>
  ELSE ParallelSidesOn(seg, Head(existing).waypoints)
       \o FindParallelSegments(seg, Tail(existing))

\* one segment of applyCorridorBundling
BundleSegment(seg, existing) ==
  LET parallels == FindParallelSegments(seg, existing)
  IN IF Len(parallels) > 0
     THEN [seg EXCEPT !.off = IF SumSeq(parallels) >= 0 THEN 1 ELSE -1]
     ELSE seg

\* applyCorridorBundling that bundles against every line, the current one included
ApplyCorridorBundling_AllLines(path, ls, currentLine) ==
  [i \in 1..Len(path) |-> BundleSegment(path[i], ls)]

\* applyCorridorBundling(path, game, currentLine)
ApplyCorridorBundling(path, ls, currentLine) ==
  [i \in 1..Len(path) |->
     BundleSegment(path[i], SelectSeq(ls, LAMBDA l : l.id # currentLine.id))]

\* the waypoints rebuildWaypointsForLine assigns to `line`
RebuiltWaypoints(ls, line) ==
  IF Len(line.stations) < 2 THEN NullWaypoints
  ELSE ApplyCorridorBundling(RoutedPath(line.stations), ls, line)

RebuildLineAt(ls, k) == [ls EXCEPT ![k].waypoints = RebuiltWaypoints(ls, ls[k])]

\* rebuildWaypointsForLine(game, line) for the line at index k of game.lines
RebuildWaypointsForLine(g, k) == [g EXCEPT !.lines = RebuildLineAt(@, k)]

CreateLine(g, sts) ==
  IF Len(sts) < 2 THEN g
  ELSE LET line == [id |-> Len(g.lines), stations |-> sts, isLoop |-> FALSE,
                    trains |-> <<>>, serials |-> <<>>, waypoints |-> NullWaypoints,
                    totalLength |-> PathLength(sts)]
           g1 == [g EXCEPT !.lines = Append(@, line),
                           !.stations = AddConnections(@, sts, line.id)]
       IN OptimizeTrainAllocation(Rescaled(g1))

InsertAt(seq, pos, x) == SubSeq(seq, 1, pos) \o <<x>> \o SubSeq(seq, pos + 1, Len(seq))

\* addStationToLine without its early return on missing permits
AddStationToLine_NoPermitReturn(g, lineId, st, position) ==
  IF ~HasLineAt(g, lineId) THEN g
  ELSE LET line == LineAt(g, lineId)
           n == Len(line.stations)
           newIdx == IF position = -1 THEN n ELSE Max2(0, Min2(position, n))
           c1 == IF newIdx - 1 >= 0 /\ Crosses(line.stations[newIdx], st) THEN 1 ELSE 0
           c2 == IF newIdx < n /\ Crosses(st, line.stations[newIdx + 1]) THEN 1 ELSE 0
           crossingsNeeded == c1 + c2
           newSts == IF position = -1 \/ position >= n THEN Append(line.stations, st)
                     ELSE InsertAt(line.stations, position, st)
           g1 == [g EXCEPT !.lines[lineId + 1].stations = newSts,
                           !.lines[lineId + 1].totalLength = PathLength(newSts),
                           !.tunnels = IF crossingsNeeded > 0
                                       THEN Max2(0, @ - crossingsNeeded) ELSE @,
                           !.stations[st].connections = PushUnique(@, lineId)]
       IN OptimizeTrainAllocation(Rescaled(RebuildWaypointsForLine(g1, lineId + 1)))

\* addStationToLine(game, lineId, stationIdx, position); position -1 stands for null
AddStationToLine(g, lineId, st, position) ==
  IF ~HasLineAt(g, lineId) THEN g
  ELSE LET line == LineAt(g, lineId)
           n == Len(line.stations)
           newIdx == IF position = -1 THEN n ELSE Max2(0, Min2(position, n))
           c1 == IF newIdx - 1 >= 0 /\ Crosses(line.stations[newIdx], st) THEN 1 ELSE 0
           c2 == IF newIdx < n /\ Crosses(st, line.stations[newIdx + 1]) THEN 1 ELSE 0
           crossingsNeeded == c1 + c2
       IN IF crossingsNeeded > 0 /\ g.tunnels < crossingsNeeded THEN g
          ELSE LET newSts == IF position = -1 \/ position >= n THEN Append(line.stations, st)
                             ELSE InsertAt(line.stations, position, st)
                   g1 == [g EXCEPT !.lines[lineId + 1].stations = newSts,
                                   !.lines[lineId + 1].totalLength = PathLength(newSts),
                                   !.tunnels = IF crossingsNeeded > 0
                                               THEN Max2(0, @ - crossingsNeeded) ELSE @,
                                   !.stations[st].connections = PushUnique(@, lineId)]
               IN OptimizeTrainAllocation(Rescaled(RebuildWaypointsForLine(g1, lineId + 1)))

AddStationToLineOk(g, lineId, st, position) ==
  /\ HasLineAt(g, lineId)
  /\ LET line == LineAt(g, lineId)
         n == Len(line.stations)
         newIdx == IF position = -1 THEN n ELSE Max2(0, Min2(position, n))
         c1 == IF newIdx - 1 >= 0 /\ Crosses(line.stations[newIdx], st) THEN 1 ELSE 0
         c2 == IF newIdx < n /\ Crosses(st, line.stations[newIdx + 1]) THEN 1 ELSE 0
     IN ~(c1 + c2 > 0 /\ g.tunnels < c1 + c2)

RemoveAt(seq, i) == SubSeq(seq, 1, i - 1) \o SubSeq(seq, i + 1, Len(seq))

RemoveFirst(seq, x) ==
  LET idx == {i \in 1..Len(seq) : seq[i] = x}
  IN IF idx = {} THEN seq ELSE RemoveAt(seq, SetMin(idx))

\* the index in game.lines of the first line whose id field is lineId, 0 if none
FindLineIndex(g, lineId) ==
  LET idx == {k \in 1..Len(g.lines) : g.lines[k].id = lineId}
  IN IF idx = {} THEN 0 ELSE SetMin(idx)

RECURSIVE PushPassengers(_, _, _)
PushPassengers(sts, ps, where) ==
  IF ps = <<>> THEN sts
  ELSE PushPassengers([sts EXCEPT ![Head(where)].queue = Append(@, Head(ps))],
                      Tail(ps), Tail(where))

\* trainIds.forEach: drop the first train with that id, its passengers go to the
\* stations drawn by Math.random (`where`, consumed from the left)
RECURSIVE DetachTrains(_, _, _)
DetachTrains(g, trainIds, where) ==
  IF trainIds = <<>> THEN g
  ELSE LET idx == {i \in 1..Len(g.trains) : g.trains[i].id = Head(trainIds)}
       IN IF idx = {} THEN DetachTrains(g, Tail(trainIds), where)
          ELSE LET ti == SetMin(idx)
                   ps == g.trains[ti].passengers
                   g1 == [g EXCEPT !.stations = PushPassengers(@, ps, SubSeq(where, 1, Len(ps))),
                                   !.trains = RemoveAt(@, ti)]
               IN DetachTrains(g1, Tail(trainIds), SubSeq(where, Len(ps) + 1, Len(where)))

RECURSIVE DropConnections(_, _, _)
DropConnections(sts, ids, lineId) ==
  IF ids = <<>> THEN sts
  ELSE DropConnections([sts EXCEPT ![Head(ids)].connections = RemoveFirst(@, lineId)],
                       Tail(ids), lineId)

\* the trains detached (g): connections, the line and the two counters
DetachLine(g, line, idx, lineId) ==
  Rescaled([g EXCEPT !.stations = DropConnections(@, line.stations, lineId),
                     !.lines = RemoveAt(@, idx),
                     !.linesAvailable = @ + 1,
                     !.trainsAvailable = @ + Len(line.trains)])

\* removeLine(lineId) up to its call of optimizeTrainAllocation
RemoveLineCore(g, lineId, where) ==
  LET idx == FindLineIndex(g, lineId)
  IN IF idx = 0 THEN g
     ELSE DetachLine(DetachTrains(g, g.lines[idx].trains, where), g.lines[idx], idx, lineId)

RemoveLine(g, lineId, where) ==
  IF FindLineIndex(g, lineId) = 0 THEN g
  ELSE OptimizeTrainAllocation(RemoveLineCore(g, lineId, where))

(***************************************************************************)
(* Passengers: spawning and the boarding decision (passengers.js)          *)
(***************************************************************************)
\* dynamicCap / cap: Math.round(baseCap * boost)
DynamicCap(st, d) ==
  LET baseCap == IF IsFinalSt(st) THEN 14 ELSE IF IsInterchangeSt(st) THEN 11 ELSE 9
      boost10 == IF d <= 2 THEN 20 ELSE IF d = 3 THEN 16 ELSE IF d = 4 THEN 13 ELSE 11
  IN MathRound(baseCap * boost10, 10)

\* the stations spawnPassenger may draw as origin
SpawnOrigins(g) ==
  LET roomy == {st \in StationIds : Len(g.stations[st].queue) < DynamicCap(st, g.day) - 1}
  IN IF roomy = {} THEN StationIds ELSE roomy

\* the stations spawnPassenger may draw as destination for that origin
SpawnDests(origin) ==
  LET finals == {st \in StationIds : st # origin /\ IsFinalSt(st)}
      others == {st \in StationIds : st # origin /\ ~IsFinalSt(st)}
      interchanges == {st \in others : IsInterchangeSt(st)}
  IN IF finals # {} THEN finals \cup interchanges \cup others ELSE others

\* spawnPassenger with its random draws resolved to origin and dest
SpawnPassenger(g, origin, dest) ==
  IF g.gameOver \/ NumStations < 2 THEN g
  ELSE IF origin \notin SpawnOrigins(g) \/ dest \notin SpawnDests(origin) THEN g
  ELSE LET passenger == [id |-> g.totalPassengers, destStation |-> dest,
                         spawnTime |-> g.gameTime, transferReadyAt |-> g.gameTime,
                         transferCount |-> 0]
       IN [g EXCEPT !.stations[origin].queue = Append(@, passenger),
                    !.totalPassengers = @ + 1]

HubSpokeBoardingWaitMs == 8000

\* hubSpokeBias 1.6, in tenths
HubSpokeBias10 == 16

LineHasHub(line) == \E i \in 1..Len(line.stations) : IsHubSt(line.stations[i])

ShouldBoardLineHere(g, line, stationIdx, passenger) ==
  LET dest == passenger.destStation
      neigh == NeighborsOnLineFrom(line, stationIdx)
      crowd == Len(g.stations[stationIdx].queue)
      \* game.gameTime - (passenger.spawnTime || game.gameTime)
      waited == IF passenger.spawnTime = 0 THEN 0 ELSE g.gameTime - passenger.spawnTime
      threshold == Max2(3000, MathRound(HubSpokeBoardingWaitMs * 10, Max2(10, HubSpokeBias10)))
      longWaitThreshold == IF g.day <= 2 THEN 20000 ELSE 30000
      emergencyWait == IF g.day <= 2 THEN 45000 ELSE 60000
  IN IF Len(line.stations) < 2 THEN FALSE
     ELSE IF Includes(line.stations, dest) THEN TRUE
     ELSE IF Len(neigh) = 0 THEN FALSE
     ELSE \/ \E i \in 1..Len(neigh) : StepReducesETA(g.lines, stationIdx, neigh[i], dest)
          \/ \E i \in 1..Len(neigh) :
               \E c \in 1..Len(g.stations[neigh[i]].connections) :
                 LET otherLineId == g.stations[neigh[i]].connections[c]
                 IN /\ otherLineId # line.id
                    /\ HasLineAt(g, otherLineId)
                    /\ Includes(LineAt(g, otherLineId).stations, dest)
          \/ (((g.day <= 2 /\ crowd >= 4) \/ crowd >= 6) /\ LineHasHub(line))
          \/ /\ HubAndSpokeMode
             /\ ~IsFinite(EstimateETA(g.lines, stationIdx, dest))
             /\ LineHasHub(line)
             /\ waited > threshold
          \/ (g.gameTime - passenger.spawnTime > longWaitThreshold /\ LineHasHub(line))
          \/ g.gameTime - passenger.spawnTime > emergencyWait

(***************************************************************************)
(* Train motion and the arrival handler (trains.js)                        *)
(*                                                                         *)
(* train.position p is stored as p * total * SpeedDen, the distance along  *)
(* the line in 1/SpeedDen of a world unit (total = the line's length), so  *)
(* that norm[i] and step = speed * dt / safeLen are exact integers.        *)
(* dwellRemaining and stationCooldown are stored in 1/TimerDen ms.         *)
(***************************************************************************)
SpeedDen == 40000

TimerDen == 10

\* total = Math.max(cum, 1e-6), in world units
LineTotal(line) == Max2(PathLength(line.stations), 1)

\* the value 1.0 of the normalized position
LineOne(line) == LineTotal(line) * SpeedDen

\* norm[idx - 1]
NormAt(line, idx) == PathLength(SubSeq(line.stations, 1, idx)) * SpeedDen

\* the value e of the normalized position, e given in millionths (eps = 100)
PosEps(line, e) == (e * LineTotal(line) * (SpeedDen \div 1000)) \div 1000

\* mutant: the boarding loop lets one passenger more aboard
BoardingFull_OffByOne(picked, capacity) == picked > capacity

\* picked >= capacity
BoardingFull(picked, capacity) == picked >= capacity

\* the boarding loop over station.queue: <<keep, boarded>>
RECURSIVE BoardLoop(_, _, _, _, _, _, _)
BoardLoop(g, line, stId, q, capacity, keep, boarded) ==
  IF q = <<>> THEN <<keep, boarded>>
  ELSE LET p == Head(q)
       IN IF BoardingFull(Len(boarded), capacity) \/ g.gameTime < p.transferReadyAt
             \/ ~ShouldBoardLineHere(g, line, stId, p)
          THEN BoardLoop(g, line, stId, Tail(q), capacity, Append(keep, p), boarded)
          ELSE BoardLoop(g, line, stId, Tail(q), capacity, keep, Append(boarded, p))

\* the transfer delay without the station's connection time
TransferDelay_None(g, stId) == 0

\* Math.round(mctBase * mctFactor * mctMult)
TransferDelay(g, stId) ==
  LET mctFactor10 == IF g.day <= 2 THEN 7 ELSE IF g.day = 3 THEN 9 ELSE 10
  IN MathRound(StationMctMs[stId + 1] * mctFactor10 * MctMultNum, 10 * MctMultDen)

\* the boarding loop's result stored: [queue left, passengers taken aboard]
AfterBoarding(g, ti, stId, res) ==
  [g EXCEPT !.trains[ti].passengers = @ \o res[2], !.stations[stId].queue = res[1]]

\* the boarding part of handleStationArrival, the alighting done
HandleBoarding(g, ti, stId, line) ==
  LET capacity == g.trains[ti].capacity - Len(g.trains[ti].passengers)
  IN IF capacity <= 0 THEN g
     ELSE AfterBoarding(g, ti, stId,
            BoardLoop(g, line, stId, g.stations[stId].queue, capacity, <<>>, <<>>))

HandleStationArrival(g, ti, stId) ==
  LET train == g.trains[ti]
      now == g.gameTime
  IN IF ~HasLineAt(g, train.lineId) THEN g
     ELSE LET line == LineAt(g, train.lineId)
              onward(p) == p.destStation # stId /\ ~Includes(line.stations, p.destStation)
              stay(p) == p.destStation # stId /\ Includes(line.stations, p.destStation)
              leaving == SelectSeq(train.passengers, onward)
              transferred == [i \in 1..Len(leaving) |->
                                [leaving[i] EXCEPT !.transferReadyAt = now + TransferDelay(g, stId),
                                                   !.transferCount = @ + 1]]
          IN HandleBoarding([g EXCEPT !.trains[ti].passengers = SelectSeq(@, stay),
                                      !.stations[stId].queue = @ \o transferred],
                            ti, stId, line)

\* mutant: station.turnaroundMs || default, a turnaround of 0 counts as missing
DwellFor_ZeroIsMissing(g, stId) ==
  LET early == IF g.day <= 3 THEN 8 ELSE 10
      crowd == IF g.stations[stId].isOvercrowded THEN 8 ELSE 10
      type == IF IsInterchangeSt(stId) THEN 8 ELSE 10
      baseTurn == IF g.stations[stId].turnaroundMs = 0 THEN 600 ELSE g.stations[stId].turnaroundMs
  IN (baseTurn * TimerDen * early * crowd * type) \div 1000

\* baseTurn * earlyFactor * crowdFactor * typeFactor, in 1/TimerDen ms
DwellFor(g, stId) ==
  LET early == IF g.day <= 3 THEN 8 ELSE 10
      crowd == IF g.stations[stId].isOvercrowded THEN 8 ELSE 10
      type == IF IsInterchangeSt(stId) THEN 8 ELSE 10
  IN (g.stations[stId].turnaroundMs * TimerDen * early * crowd * type) \div 1000

\* the end of arriveAtStationIdx: last station, cooldown, dwell, the turn at a terminal
StartDwell(g, ti, stId, flip) ==
  [g EXCEPT !.trains[ti].lastStationVisited = stId,
            !.trains[ti].stationCooldown = 600 * TimerDen,
            !.trains[ti].dwellRemaining = DwellFor(g, stId),
            !.trains[ti].direction = IF flip THEN -@ ELSE @]

\* arriveAtStationIdx(idx), idx counted from 1
ArriveAtStationIdx(g, ti, idx) ==
  LET line == LineAt(g, g.trains[ti].lineId)
      stId == line.stations[idx]
      flip == ~line.isLoop /\ (idx = 1 \/ idx = Len(line.stations))
  IN StartDwell(HandleStationArrival(g, ti, stId), ti, stId, flip)

\* mutant: the train keeps the end of its step instead of the station's position
SnapPosition_KeepStep(sp, endPos) == endPos

\* train.position = sp
SnapPosition(sp, endPos) == sp

\* checkCrossing(startPos, endPos, dir): [hit, g]
CheckCrossing(g, ti, startPos, endPos, dir) ==
  LET train == g.trains[ti]
      line == LineAt(g, train.lineId)
      eps == PosEps(line, 100)
      free(i) == train.lastStationVisited # line.stations[i] /\ train.stationCooldown <= 0
      ahead == {i \in 1..Len(line.stations) :
                  /\ NormAt(line, i) > startPos + eps
                  /\ NormAt(line, i) <= endPos + eps
                  /\ free(i)}
      behind == {i \in 1..Len(line.stations) :
                   /\ NormAt(line, i) < startPos - eps
                   /\ NormAt(line, i) >= endPos - eps
                   /\ free(i)}
      hits == IF dir > 0 THEN ahead ELSE behind
  IN IF hits = {} THEN [hit |-> FALSE, g |-> g]
     ELSE LET i == IF dir > 0 THEN SetMin(hits) ELSE SetMax(hits)
              g1 == [g EXCEPT !.trains[ti].position = SnapPosition(NormAt(line, i), endPos)]
          IN [hit |-> TRUE, g |-> ArriveAtStationIdx(g1, ti, i)]

\* mutant: the dwell counter is left where the subtraction put it
EndDwell_NotZeroed(train, line) ==
  LET epsPos == PosEps(line, 1000)
      one == LineOne(line)
      pos == IF line.isLoop THEN train.position
             ELSE IF train.position >= one - epsPos THEN one - 2 * epsPos
             ELSE IF train.position <= epsPos THEN 2 * epsPos
             ELSE train.position
  IN [train EXCEPT !.position = pos, !.stationCooldown = 0]

\* the end of a dwell (line 95-103)
EndDwell(train, line) ==
  LET epsPos == PosEps(line, 1000)
      one == LineOne(line)
      pos == IF line.isLoop THEN train.position
             ELSE IF train.position >= one - epsPos THEN one - 2 * epsPos
             ELSE IF train.position <= epsPos THEN 2 * epsPos
             ELSE train.position
  IN [train EXCEPT !.dwellRemaining = 0, !.position = pos, !.stationCooldown = 0]

\* the turn-back guard of a non-loop line (line 106-110)
TurnGuard(train, line) ==
  LET epsGuard == PosEps(line, 100)
      one == LineOne(line)
  IN IF line.isLoop THEN train
     ELSE IF train.position >= one - epsGuard /\ train.direction > 0 /\ train.stationCooldown <= 0
     THEN [train EXCEPT !.direction = -1, !.position = one - 2 * epsGuard]
     ELSE IF train.position <= epsGuard /\ train.direction < 0 /\ train.stationCooldown <= 0
     THEN [train EXCEPT !.direction = 1, !.position = 2 * epsGuard]
     ELSE train

\* a loop line whose step leaves [0, 1] (line 130): the crossing is checked up to the
\* boundary and then from the boundary to the wrapped position
WrappedSecond(c2, g, ti, wrapped) ==
  IF c2.hit THEN c2.g ELSE [g EXCEPT !.trains[ti].position = wrapped]

WrappedFirst(c1, g, ti, up, one, wrapped, dir) ==
  IF c1.hit THEN c1.g
  ELSE WrappedSecond(CheckCrossing(g, ti, IF up THEN 0 ELSE one, wrapped, dir),
                     g, ti, wrapped)

MoveWrapped(g, ti, prevPos, proposed, dir) ==
  LET one == LineOne(LineAt(g, g.trains[ti].lineId))
      up == proposed > one
  IN WrappedFirst(CheckCrossing(g, ti, prevPos, IF up THEN one ELSE 0, dir),
                  g, ti, up, one, IF up THEN proposed - one ELSE proposed + one, dir)

\* the end of the step on a non-loop line (line 133)
MoveClamped(g, ti, proposed) ==
  LET train == g.trains[ti]
      line == LineAt(g, train.lineId)
      one == LineOne(line)
      eps == PosEps(line, 100)
      pos == Max2(0, Min2(one, proposed))
      g1 == [g EXCEPT !.trains[ti].position = pos]
      free(stId) == train.lastStationVisited # stId /\ train.stationCooldown <= 0
  IN IF pos >= one - eps
     THEN IF free(line.stations[Len(line.stations)])
          THEN ArriveAtStationIdx(g1, ti, Len(line.stations))
          ELSE [g EXCEPT !.trains[ti].position = one, !.trains[ti].direction = -1]
     ELSE IF pos <= eps
     THEN IF free(line.stations[1])
          THEN ArriveAtStationIdx(g1, ti, 1)
          ELSE [g EXCEPT !.trains[ti].position = 0, !.trains[ti].direction = 1]
     ELSE g1

\* the step once checkCrossing has answered `c` (line 131-133)
MoveUnwrapped(c, g, ti, proposed) ==
  LET line == LineAt(g, g.trains[ti].lineId)
      one == LineOne(line)
  IN IF c.hit THEN c.g
     ELSE IF line.isLoop
     THEN [g EXCEPT !.trains[ti].position =
                      IF proposed >= one THEN proposed - one
                      ELSE IF proposed < 0 THEN proposed + one
                      ELSE proposed]
     ELSE MoveClamped(g, ti, proposed)

\* the movement of a train that is not dwelling (line 111-133)
MoveTrain(g, ti, deltaTime) ==
  LET train == g.trains[ti]
      line == LineAt(g, train.lineId)
      one == LineOne(line)
      safeLen == Max2(100, line.totalLength)
      step == IF safeLen = LineTotal(line) THEN train.speed * deltaTime
              ELSE (train.speed * deltaTime * LineTotal(line)) \div safeLen
      prevPos == train.position
      proposed == prevPos + step * train.direction
  IN IF line.isLoop /\ (proposed > one \/ proposed < 0)
     THEN MoveWrapped(g, ti, prevPos, proposed, train.direction)
     ELSE MoveUnwrapped(CheckCrossing(g, ti, prevPos, proposed, train.direction),
                        g, ti, proposed)

\* the body of updateTrains' forEach for the train at index ti
UpdateTrain(g, ti, deltaTime) ==
  LET train == g.trains[ti]
  IN IF ~HasLineAt(g, train.lineId) THEN g
     ELSE IF Len(LineAt(g, train.lineId).stations) < 2 THEN g
     ELSE
       LET line == LineAt(g, train.lineId)
           t0 == IF train.stationCooldown > 0
                 THEN [train EXCEPT !.stationCooldown = @ - deltaTime * TimerDen]
                 ELSE train
       IN IF t0.dwellRemaining > 0
          THEN LET t1 == [t0 EXCEPT !.dwellRemaining = @ - deltaTime * TimerDen]
               IN [g EXCEPT !.trains[ti] = IF t1.dwellRemaining <= 0 THEN EndDwell(t1, line)
                                           ELSE t1]
          ELSE MoveTrain([g EXCEPT !.trains[ti] = TurnGuard(t0, line)], ti, deltaTime)

RECURSIVE UpdateTrainsFrom(_, _, _)
UpdateTrainsFrom(g, ti, deltaTime) ==
  IF ti > Len(g.trains) THEN g
  ELSE UpdateTrainsFrom(UpdateTrain(g, ti, deltaTime), ti + 1, deltaTime)

UpdateTrains(g, deltaTime) == UpdateTrainsFrom(g, 1, deltaTime)

(***************************************************************************)
(* The passenger sweep (passengers.js) and game.endGame (main.js)          *)
(***************************************************************************)
\* game.endGame(reason): the reason text is kept as its kind and the station it names
EndGame(g, kind, st) ==
  [g EXCEPT !.gameOver = TRUE,
            !.goReason = [kind |-> kind, station |-> st],
            !.endGameCalls = @ + 1]

\* overflowFailMs
OverflowFailMs(d) == IF d <= 2 THEN 60000 ELSE IF d = 3 THEN 55000 ELSE IF d = 4 THEN 50000 ELSE 45000

\* Math.round(altStation.mctMs * mctMultiplier)
RelocationDelay(alt) == MathRound(StationMctMs[alt + 1] * MctMultNum, MctMultDen)

\* passengersToMove.forEach: each goes to the alternative station its draw selects
RECURSIVE MovePassengers(_, _, _, _, _)
MovePassengers(g, st, toMove, alts, draws) ==
  IF toMove = <<>> THEN g
  ELSE LET passenger == Head(toMove)
           alt == alts[(Head(draws) % Len(alts)) + 1]
           idx == {i \in 1..Len(g.stations[st].queue) : g.stations[st].queue[i].id = passenger.id}
           g1 == IF idx = {} THEN g
                 ELSE [g EXCEPT !.stations[st].queue = RemoveAt(@, SetMin(idx)),
                                !.stations[alt].queue =
                                   Append(@, [passenger EXCEPT !.transferReadyAt =
                                                 g.gameTime + RelocationDelay(alt)])]
       IN MovePassengers(g1, st, Tail(toMove), alts, Tail(draws))

HandleEmergencyOvercrowding(g, st, draws) ==
  LET queue == g.stations[st].queue
      criticalWaitTime == 80000
      severeOvercrowding == Len(queue) >= 12
      stuck(p) == g.gameTime - p.spawnTime > criticalWaitTime
      stuckPassengers == SelectSeq(queue, stuck)
      calm(s) == s # st /\ Len(g.stations[s].queue) < 4 /\ Len(g.stations[s].connections) > 0
      alternativeStations == SelectSeq([i \in 1..NumStations |-> i - 1], calm)
      candidates == IF Len(stuckPassengers) > 0 THEN stuckPassengers
                    ELSE SubSeq(queue, 1, Min2(2, Len(queue)))
      passengersToMove == SubSeq(candidates, 1, Min2(2, Len(candidates)))
      elsewhere(p) == p.destStation # st
  IN IF queue = <<>> THEN g
     ELSE IF ~(Len(stuckPassengers) > 0 \/ severeOvercrowding) THEN g
     ELSE LET g1 == IF /\ (Len(stuckPassengers) >= 2 \/ (severeOvercrowding /\ Len(queue) > 14))
                       /\ Len(alternativeStations) > 0
                    THEN MovePassengers(g, st, passengersToMove, alternativeStations, draws)
                    ELSE g
          IN IF IsFinalSt(st) /\ severeOvercrowding
             THEN [g1 EXCEPT !.stations[st].queue = SelectSeq(@, elsewhere)]
             ELSE g1

\* p.waitTime > maxWaitSeconds * 1000
WaitedTooLong(g, p) == g.gameTime - p.spawnTime > MaxWaitSeconds * 1000

\* canBeServed
CanBeServed(g, st, p) ==
  Len(g.stations[st].connections) > 0 /\ IsFinite(EstimateETA(g.lines, st, p.destStation))

\* mutant: the multiplier is left out
MissedConnection_NoMultiplier(g, p) == g.gameTime - p.spawnTime > MaxWaitSeconds * 1000

\* p.waitTime > maxWaitSeconds * missMult * 1000
MissedConnection(g, p) ==
  g.gameTime - p.spawnTime > MaxWaitSeconds * MissedConnectionMultiplier * 1000

\* st.queue.splice(i, 1), i counted from 1
SpliceAt(queue, i) == IF i > Len(queue) THEN queue ELSE RemoveAt(queue, i)

RECURSIVE SpliceEach(_, _)
SpliceEach(queue, idxs) ==
  IF idxs = <<>> THEN queue ELSE SpliceEach(SpliceAt(queue, Head(idxs)), Tail(idxs))

Reverse(seq) == [i \in 1..Len(seq) |-> seq[Len(seq) + 1 - i]]

\* mutant: the indexes are spliced in ascending order
RemoveStranded_NoReverse(queue, stranded) == SpliceEach(queue, stranded)

\* stranded.reverse().forEach(i => st.queue.splice(i, 1))
RemoveStranded(queue, stranded) == SpliceEach(queue, Reverse(stranded))

\* the forEach over the queue and the removal of the stranded (line 484-504)
HandleStranded(g, st) ==
  LET queue == g.stations[st].queue
      isStranded(i) == WaitedTooLong(g, queue[i]) /\ ~CanBeServed(g, st, queue[i])
      stranded == SelectSeq([i \in 1..Len(queue) |-> i], isStranded)
      missed(p) == WaitedTooLong(g, p) /\ CanBeServed(g, st, p) /\ MissedConnection(g, p)
      nMissed == Len(SelectSeq(queue, missed))
      g1 == IF nMissed = 0 THEN g
            ELSE [EndGame(g, "missed", st) EXCEPT !.endGameCalls = g.endGameCalls + nMissed]
  IN [g1 EXCEPT !.stations[st].queue = RemoveStranded(queue, stranded)]

\* mutant: the game already ends when the timer reaches the grace period
OverflowExceeded_AtGrace(timer, d) == timer >= OverflowFailMs(d)

\* st.overflowTimer > overflowFailMs
OverflowExceeded(timer, d) == timer > OverflowFailMs(d)

\* the body of the sweep's for loop for one station: [g, stop].  The entry added to
\* sweepLog records the queue the body examined (after the emergency handler), the
\* overflow timer before and after, and what the body did and left behind.
SweepLogged(g1, g2, st, over, timer, ended) ==
  LET entry == [st |-> st, timerBefore |-> g1.stations[st].overflowTimer, over |-> over,
                timer |-> timer, ended |-> ended, examined |-> g1.stations[st].queue,
                after |-> g2.stations[st].queue,
                flag |-> g2.stations[st].isOvercrowded,
                gameOver |-> g2.gameOver, goReason |-> g2.goReason,
                missedCalls |-> IF ended THEN 0 ELSE g2.endGameCalls - g1.endGameCalls]
  IN [g |-> [g2 EXCEPT !.sweepLog = Append(@, entry)], stop |-> ended]

\* the body after handleEmergencyOvercrowding: the overflow timer and the passengers
SweepChecked(g, st, dt) ==
  LET over == Len(g.stations[st].queue) >= DynamicCap(st, g.day)
      timer == IF over THEN g.stations[st].overflowTimer + dt ELSE 0
      ended == over /\ OverflowExceeded(timer, g.day)
  IN SweepLogged(g,
       IF ended
       THEN EndGame([g EXCEPT !.stations[st].overflowTimer = timer], "overcrowded", st)
       ELSE HandleStranded([g EXCEPT !.stations[st].overflowTimer = timer,
                                     !.stations[st].isOvercrowded = over], st),
       st, over, timer, ended)

SweepStation(g, st, dt, draws) ==
  SweepChecked(HandleEmergencyOvercrowding(g, st, draws), st, dt)

RECURSIVE SweepFrom(_, _, _, _)
SweepNext(r, st, dt, draws) ==
  IF r.stop THEN r.g ELSE SweepFrom(r.g, st + 1, dt, draws)

SweepFrom(g, st, dt, draws) ==
  IF st >= NumStations THEN g
  ELSE SweepNext(SweepStation(g, st, dt, draws), st, dt, draws)

\* updatePassengersAndCheckOvercrowding(game, dt)
UpdatePassengersAndCheckOvercrowding(g, dt, draws) ==
  SweepFrom([g EXCEPT !.endGameCalls = 0], 0, dt, draws)

(***************************************************************************)
(* Player operations (input_final.js pointerup, the MM API of main.js)     *)
(***************************************************************************)
\* the lines that have the station as their first or last entry, in game.lines order
Extendable(g, st) ==
  SelectSeq(g.lines, LAMBDA l : l.stations[1] = st \/ l.stations[Len(l.stations)] = st)

\* the pointerup handler with the pool charged for the new line's vehicle whatever it holds
PointerUpConnect_PoolAlwaysPays(g, from, hit, shift) ==
  IF hit = from THEN g
  ELSE IF Len(Extendable(g, from)) > 0 /\ ~shift
  THEN LET line == Extendable(g, from)[1]
           k == SetMin({i \in 1..Len(g.lines) : g.lines[i] = line})
           newSts == IF line.stations[1] = from THEN <<hit>> \o line.stations
                     ELSE Append(line.stations, hit)
           g1 == Rescaled(RebuildWaypointsForLine(
                   [g EXCEPT !.lines[k].stations = newSts,
                             !.lines[k].totalLength = PathLength(newSts)], k))
           g2 == IF Len(line.trains) = 0 /\ g1.trainsAvailable > 0
                 THEN [CreateTrain(g1, line.id) EXCEPT !.trainsAvailable = @ - 1]
                 ELSE g1
           g3 == [g2 EXCEPT !.stations[hit].connections = PushUnique(@, line.id)]
       IN OptimizeTrainAllocation(g3)
  ELSE IF g.linesAvailable > 0
  THEN IF Crosses(from, hit) /\ g.tunnels <= 0 THEN g
       ELSE LET newId == Len(g.lines)
                g1 == [CreateLine(g, <<from, hit>>)
                         EXCEPT !.lines[newId + 1].waypoints = <<HexCorridor(from, hit)>>]
                g2 == CreateTrain(g1, newId)
            IN [g2 EXCEPT !.trainsAvailable = @ - 1,
                          !.linesAvailable = @ - 1,
                          !.tunnels = IF Crosses(from, hit) THEN Max2(0, @ - 1) ELSE @]
  ELSE g

\* pointerup after a drag from station `from` released on station `hit`
PointerUpConnect(g, from, hit, shift) ==
  IF hit = from THEN g
  ELSE IF Len(Extendable(g, from)) > 0 /\ ~shift
  THEN LET line == Extendable(g, from)[1]
           k == SetMin({i \in 1..Len(g.lines) : g.lines[i] = line})
           newSts == IF line.stations[1] = from THEN <<hit>> \o line.stations
                     ELSE Append(line.stations, hit)
           g1 == Rescaled(RebuildWaypointsForLine(
                   [g EXCEPT !.lines[k].stations = newSts,
                             !.lines[k].totalLength = PathLength(newSts)], k))
           g2 == IF Len(line.trains) = 0 /\ g1.trainsAvailable > 0
                 THEN [CreateTrain(g1, line.id) EXCEPT !.trainsAvailable = @ - 1]
                 ELSE g1
           g3 == [g2 EXCEPT !.stations[hit].connections = PushUnique(@, line.id)]
       IN OptimizeTrainAllocation(g3)
  ELSE IF g.linesAvailable > 0
  THEN IF Crosses(from, hit) /\ g.tunnels <= 0 THEN g
       ELSE LET newId == Len(g.lines)
                g1 == [CreateLine(g, <<from, hit>>)
                         EXCEPT !.lines[newId + 1].waypoints = <<HexCorridor(from, hit)>>]
                g2 == CreateTrain(g1, newId)
            IN [g2 EXCEPT !.trainsAvailable = IF @ > 0 THEN @ - 1 ELSE @,
                          !.linesAvailable = @ - 1,
                          !.tunnels = IF Crosses(from, hit) THEN Max2(0, @ - 1) ELSE @]
  ELSE g

(***************************************************************************)
(* The frame loop and the headless simulation (main.js)                    *)
(*                                                                         *)
(* Left out as external collaborators: weather, events, score popups,      *)
(* achievements, the camera, the timed arrival of new airports and the     *)
(* auto-router.  The inputs of a tick are its Math.random() draws.         *)
(***************************************************************************)
WaitingTotal(g) == SumSeq([i \in 1..NumStations |-> Len(g.stations[i - 1].queue)])

\* Math.max(1200, (base * diff + jitter) * congestionFactor * intervalMult), rounded up
\* to the first whole millisecond at which gameTime >= nextSpawn holds
SpawnInterval(g, jitter) ==
  LET diff100 == Max2(55, 100 - (g.day - 1) * 4)
      crowd == Min2(36, WaitingTotal(g))
  IN Max2(1200, CeilDiv((36 * diff100 + jitter) * (360 + 22 * crowd) * 17, 7200))

\* !nextSpawn || game.gameTime >= nextSpawn
SpawnDue(g) == g.nextSpawn = 0 \/ g.gameTime >= g.nextSpawn

\* spawnPassenger and the scheduling of the next spawn
SpawnStep(g, in) ==
  LET gs == SpawnPassenger(g, in.origin, in.dest)
  IN [gs EXCEPT !.nextSpawn = gs.gameTime + SpawnInterval(gs, in.jitter)]

\* nowWeek > prevWeek
WeekRolled(prevTime, nowTime) == nowTime \div WeekLength > prevTime \div WeekLength

\* applyReward(type) for the reward types line, carriage, tunnel and speed; `pick` is
\* the train Math.random() selects; the dialog's timeout then clears game.paused
ApplyReward(g, type, pick) ==
  LET g1 == IF type = "line" THEN [g EXCEPT !.linesAvailable = @ + 1]
            ELSE IF type = "carriage"
            THEN LET gc == [g EXCEPT !.carriages = @ + 1]
                 IN IF Len(g.trains) = 0 THEN gc
                    ELSE [gc EXCEPT !.trains[(pick % Len(g.trains)) + 1].capacity = @ + 2]
            ELSE IF type = "tunnel" THEN [g EXCEPT !.tunnels = @ + 1]
            ELSE [g EXCEPT !.trains = [i \in 1..Len(g.trains) |->
                                         [g.trains[i] EXCEPT !.speed = (@ * 6) \div 5]]]
  IN [g1 EXCEPT !.paused = FALSE]

\* the reward types showWeeklyRewards can offer among those ApplyReward covers
RewardsOffered(g) ==
  IF Len(g.lines) < 3 THEN {"line", "carriage", "speed"}
  ELSE {"line", "carriage", "tunnel", "speed"}

\* the guarded block of loop(ts) up to the spawn: the clock and the week rollover
LoopBeforeSpawn(g, dt) ==
  LET g1 == [g EXCEPT !.gameTime = @ + dt, !.sweepLog = <<>>]
  IN IF WeekRolled(g.gameTime, g1.gameTime)
     THEN [g1 EXCEPT !.day = @ + 1, !.trainsAvailable = @ + 1, !.paused = TRUE]
     ELSE g1

\* if (!game.nextSpawn || game.gameTime >= game.nextSpawn) spawnPassenger
LoopSpawn(g, in) == IF SpawnDue(g) THEN SpawnStep(g, in) ELSE g

\* "Optimize train allocation every 2 seconds"
LoopAllocate(g) ==
  IF g.lastOptimization = 0 \/ g.gameTime - g.lastOptimization >= 2000
  THEN [OptimizeTrainAllocation(g) EXCEPT !.lastOptimization = g.gameTime]
  ELSE g

\* the guarded block: clock and rollover, spawner, trains, allocator, sweep
LoopBody(g, dt, in) ==
  UpdatePassengersAndCheckOvercrowding(
    LoopAllocate(UpdateTrains(LoopSpawn(LoopBeforeSpawn(g, dt), in), dt)), dt, in.draws)

\* the guarded block with the test on game.gameOver left out
LoopTick_PausedOnly(g, dt, in) == IF g.paused THEN g ELSE LoopBody(g, dt, in)

\* the block of loop(ts) guarded by !game.paused && !game.gameOver
LoopTick(g, dt, in) == IF g.paused \/ g.gameOver THEN g ELSE LoopBody(g, dt, in)

\* the parts of the guarded block the tick runs
LoopRan(g, dt) ==
  IF g.paused \/ g.gameOver THEN {}
  ELSE {"clock", "trains", "routeBuilder", "sweep"}
       \cup (IF g.nextSpawn = 0 \/ g.gameTime + dt >= g.nextSpawn THEN {"spawn"} ELSE {})
       \cup (IF g.lastOptimization = 0 \/ g.gameTime + dt - g.lastOptimization >= 2000
             THEN {"allocator"} ELSE {})

\* pickReward of simulateWeeks
PickReward(g) ==
  LET waiting == WaitingTotal(g)
  IN IF g.day <= 3 \/ waiting > 35 \/ Len(g.lines) < 4 THEN "line"
     ELSE IF waiting > 25 THEN "carriage"
     ELSE "speed"

\* applyRewardHeadless(type)
ApplyRewardHeadless(g, type, pick) ==
  OptimizeTrainAllocation([ApplyReward(g, type, pick) EXCEPT !.paused = g.paused])

\* "ensure every line has at least one train when available", from line index k on
RECURSIVE EnsureTrains(_, _)
EnsureTrains(g, k) ==
  IF k > Len(g.lines) THEN g
  ELSE LET line == g.lines[k]
       IN IF Len(line.trains) = 0 /\ g.trainsAvailable > 0 /\ CreateTrainOk(g, line.id)
          THEN EnsureTrains([CreateTrain(g, line.id) EXCEPT !.trainsAvailable = @ - 1], k + 1)
          ELSE EnsureTrains(g, k + 1)

\* simulateWeeks up to the spawn of one iteration of its while loop
SimBeforeSpawn(g, dt, in) ==
  LET g1 == [g EXCEPT !.gameTime = @ + dt]
  IN IF WeekRolled(g.gameTime, g1.gameTime)
     THEN LET g2 == [g1 EXCEPT !.day = @ + 1, !.trainsAvailable = @ + 1]
          IN ApplyRewardHeadless(g2, PickReward(g2), in.pick)
     ELSE g1

\* "Optimize periodically" of simulateWeeks
SimAllocate(g) ==
  IF g.gameTime - g.lastOptimization >= 3000
  THEN [OptimizeTrainAllocation(g) EXCEPT !.lastOptimization = g.gameTime]
  ELSE g

\* the iteration after its first sweep: trains, allocator, a train for every line, sweep
SimAfterSweep(g, dt, in) ==
  IF g.gameOver THEN g
  ELSE UpdatePassengersAndCheckOvercrowding(
         EnsureTrains(SimAllocate(UpdateTrains(g, dt)), 1), dt, in.draws)

\* one iteration of the while loop of simulateWeeks(weeks, {dt})
SimStep(g, dt, in) ==
  IF g.gameOver THEN g
  ELSE SimAfterSweep(
         UpdatePassengersAndCheckOvercrowding(
           LoopSpawn(SimBeforeSpawn([g EXCEPT !.sweepLog = <<>>], dt, in), in),
           dt, in.draws),
         dt, in)

\* a sequence of calls made one after the other: the console API's spawnPassenger and
\* removeLine, the player's pointerup, a simulateWeeks iteration, a frame
PlayOne(g, c) ==
  IF c.op = "spawn" THEN SpawnPassenger(g, c.origin, c.dest)
  ELSE IF c.op = "connect" THEN PointerUpConnect(g, c.from, c.hit, c.shift)
  ELSE IF c.op = "remove" THEN RemoveLine(g, c.lineId, c.where)
  ELSE IF c.op = "sim" THEN SimStep(g, c.dt, c.in)
  ELSE LoopTick(g, c.dt, c.in)

RECURSIVE Play(_, _)
Play(g, script) ==
  IF script = <<>> THEN g ELSE Play(PlayOne(g, Head(script)), Tail(script))

(***************************************************************************)
(* Specification SpecEta: the line network is built, extended and removed  *)
(* by the player; computeETAs is queried on every network reached.         *)
(***************************************************************************)
MaxEtaLines == 2

MaxEtaLineLen == 4

MaxEtaPool == 9

MaxEtaTrains == 6

EtaBounded(g) == g.trainsAvailable <= MaxEtaPool /\ Len(g.trains) <= MaxEtaTrains

MaxEtaOps == 3

NoOp == [op |-> "init"]

NoEta == <<>>

IdleRest ==
  /\ opCount = 0
  /\ etaOut = NoEta
  /\ hexIn = <<>>
  /\ hexOut = <<>>

InitEta ==
  /\ SetWorldInit
  /\ lastOp = NoOp
  /\ IdleRest

EtaConnect ==
  \E from \in StationIds, hit \in StationIds, shift \in BOOLEAN :
    LET ext == Len(Extendable(World, from)) > 0 /\ ~shift
    IN /\ hit # from
       /\ (shift => Len(Extendable(World, from)) > 0)
       /\ opCount < MaxEtaOps
       /\ IF ext THEN Len(Extendable(World, from)[1].stations) < MaxEtaLineLen
                 ELSE Len(lines) < MaxEtaLines
       /\ LET g2 == PointerUpConnect(World, from, hit, shift)
          IN EtaBounded(g2) /\ SetWorld(g2)
       /\ lastOp' = [op |-> IF ext THEN "extend" ELSE "create"]
       /\ opCount' = opCount + 1
       /\ etaOut' = NoEta
       /\ UNCHANGED <<hexIn, hexOut>>

EtaInsert ==
  \E k \in 1..Len(lines), st \in StationIds, position \in {-1, 0, 1} :
    /\ opCount < MaxEtaOps
    /\ Len(lines[k].stations) < MaxEtaLineLen
    /\ HasLineAt(World, lines[k].id)
    /\ LET g2 == AddStationToLine(World, lines[k].id, st, position)
       IN EtaBounded(g2) /\ SetWorld(g2)
    /\ lastOp' = [op |-> IF position = 1 THEN "insertMiddle" ELSE "insertEnd"]
    /\ opCount' = opCount + 1
    /\ etaOut' = NoEta
    /\ UNCHANGED <<hexIn, hexOut>>

EtaRemove ==
  \E k \in 1..Len(lines) :
    /\ opCount < MaxEtaOps
    /\ LET g2 == RemoveLine(World, lines[k].id, <<>>)
       IN EtaBounded(g2) /\ SetWorld(g2)
    /\ lastOp' = [op |-> "remove"]
    /\ opCount' = opCount + 1
    /\ etaOut' = NoEta
    /\ UNCHANGED <<hexIn, hexOut>>

\* computeETAs is called for every destination on the current network
EtaQuery ==
    /\ etaOut = NoEta
    /\ etaOut' = [d \in StationIds |-> ComputeETAs(lines, d)]
    /\ lastOp' = [op |-> "computeETAs"]
    /\ UNCHANGED <<worldVars, opCount, hexIn, hexOut>>

NextEta == EtaConnect \/ EtaInsert \/ EtaRemove \/ EtaQuery

SpecEta == InitEta /\ [][NextEta]_vars

(***************************************************************************)
(* Claims about the ETA estimator                                          *)
(***************************************************************************)
\* the unordered pairs of stations that are consecutive on some line
LineEdges(ls) ==
  UNION {{{ls[k].stations[i], ls[k].stations[i + 1]} :
            i \in 1..(Len(ls[k].stations) - 1)} : k \in 1..Len(ls)}

\* a and b are consecutive entries of the station sequence of some line
ConsecutiveOnSomeLine(ls, a, b) == {a, b} \in LineEdges(ls)

\* the sequences of pairwise distinct stations
SimplePaths ==
  {p \in UNION {[1..n -> StationIds] : n \in 1..NumStations} :
     \A i, j \in 1..Len(p) : i # j => p[i] # p[j]}

SimplePathsFromTo ==
  [s \in StationIds |-> [d \in StationIds |->
     {p \in SimplePaths : p[1] = s /\ p[Len(p)] = d}]]

\* sum of the edge times plus the transfer time of every intermediate station
PathCost(p) ==
  SumSeq([i \in 1..(Len(p) - 1) |-> EdgeTimeMs(p[i], p[i + 1])])
  + SumSeq([i \in 1..(Len(p) - 2) |-> StationTransferMs(p[i + 1])])

PathCostTable == [p \in SimplePaths |-> PathCost(p)]

\* the simple paths from s to d whose consecutive stations are joined by an edge
PathsAlong(edges, s, d) ==
  {p \in SimplePathsFromTo[s][d] : \A i \in 1..(Len(p) - 1) : {p[i], p[i + 1]} \in edges}

PathsBetween(ls, s, d) == PathsAlong(LineEdges(ls), s, d)

MinCostOf(paths) ==
  IF paths = {} THEN Infinity ELSE SetMin({PathCostTable[p] : p \in paths})

MinPathCost(ls, s, d) == MinCostOf(PathsBetween(ls, s, d))

\* C8: the table computeETAs(d) returns holds, for every station s, the minimum
\* over the paths from s to d along consecutive line stations of the edge times
\* plus the transfer times of the intermediate stations: 0 for s = d, and
\* infinity exactly when there is no path.
C8_EtaIsMinimumPathCost ==
  etaOut # NoEta =>
    LET edges == LineEdges(lines)
    IN \A d \in StationIds : \A s \in StationIds :
         LET paths == PathsAlong(edges, s, d)
         IN /\ etaOut[d][s] = MinCostOf(paths)
            /\ (s = d => etaOut[d][s] = 0)
            /\ (~IsFinite(etaOut[d][s]) <=> paths = {})

\* the tables of a network with an unreachable station and with a station that
\* reaches its destination only through an intermediate station
C8_Witness ==
  /\ etaOut # NoEta
  /\ \E d \in StationIds : \E s \in StationIds : ~IsFinite(etaOut[d][s])
  /\ \E d \in StationIds : \E s \in StationIds :
       /\ IsFinite(etaOut[d][s])
       /\ s # d
       /\ ~ConsecutiveOnSomeLine(lines, s, d)

\* C9: creating a line or extending a line at one of its ends never increases
\* computeETAs(d)[s] for any s and d (so a finite ETA stays finite).
C9_EtaMonotoneWhenEdgesAdded ==
  [][lastOp'.op \in {"create", "extend", "insertEnd"} =>
       \A d \in StationIds : \A s \in StationIds :
         ComputeETAs(lines', d)[s] <= ComputeETAs(lines, d)[s]]_vars

\* a second line has just been created and joins two stations that only it connects
C9_Witness ==
  /\ lastOp.op = "create"
  /\ Len(lines) = 2
  /\ \E s \in StationIds : \E d \in StationIds :
       /\ Includes(lines[1].stations, s) /\ ~Includes(lines[2].stations, s)
       /\ Includes(lines[2].stations, d) /\ ~Includes(lines[1].stations, d)
       /\ IsFinite(ComputeETAs(lines, d)[s])

(***************************************************************************)
(* Hex-grid router (hexgrid code of utils/intersections.js)                *)
(*                                                                         *)
(* A world point is <<X, Y>> with x = size * X / HexDen and                *)
(* y = size * sqrt(3) * Y / HexDen, so that the fractional cube            *)
(* coordinates of pixelToCube are exact rationals over 3 * HexDen:         *)
(*   q = 2X / (3 HexDen),  r = (3Y - X) / (3 HexDen),  s = -q - r.         *)
(***************************************************************************)
HexDen == 4

\* roundCube on the fractions qn/d, rn/d, sn/d
RoundCube(qn, rn, sn, d) ==
  LET rq == MathRound(qn, d)
      rr == MathRound(rn, d)
      rs == MathRound(sn, d)
      qd == Abs(rq * d - qn)
      rd == Abs(rr * d - rn)
      sd == Abs(rs * d - sn)
  IN IF qd > rd /\ qd > sd THEN [q |-> -rr - rs, r |-> rr, s |-> rs]
     ELSE IF rd > sd THEN [q |-> rq, r |-> -rq - rs, s |-> rs]
     ELSE [q |-> rq, r |-> rr, s |-> -rq - rr]

PixelToCube(p) ==
  LET qn == 2 * p[1]
      rn == 3 * p[2] - p[1]
  IN RoundCube(qn, rn, -qn - rn, 3 * HexDen)

\* x = size * 1.5 q,  y = size * (sqrt(3)/2 q + sqrt(3) r)
CubeToPixel(c) == <<(3 * c.q * HexDen) \div 2, ((c.q + 2 * c.r) * HexDen) \div 2>>

SnapToHexVertex(p) == CubeToPixel(PixelToCube(p))

HexDirs ==
  << [q |-> 1, r |-> -1, s |-> 0], [q |-> 1, r |-> 0, s |-> -1], [q |-> 0, r |-> 1, s |-> -1],
     [q |-> -1, r |-> 1, s |-> 0], [q |-> -1, r |-> 0, s |-> 1], [q |-> 0, r |-> -1, s |-> 1] >>

\* mutant: two of the six directions are left out
GetHexNeighbors_FourDirs(cube) ==
  [i \in 1..4 |-> [q |-> cube.q + HexDirs[IF i <= 2 THEN i ELSE i + 1].q,
                   r |-> cube.r + HexDirs[IF i <= 2 THEN i ELSE i + 1].r,
                   s |-> cube.s + HexDirs[IF i <= 2 THEN i ELSE i + 1].s]]

GetHexNeighbors(cube) ==
  [i \in 1..6 |-> [q |-> cube.q + HexDirs[i].q, r |-> cube.r + HexDirs[i].r,
                   s |-> cube.s + HexDirs[i].s]]

\* (|dq| + |dr| + |ds|) / 2; the sum is even because q + r + s = 0 on both cubes
HexDistance(a, b) == (Abs(a.q - b.q) + Abs(a.r - b.r) + Abs(a.s - b.s)) \div 2

\* map.get(key) ?? Infinity
GetOr(map, k) == IF k \in DOMAIN map THEN map[k] ELSE Infinity

\* the index of the open node with the lowest f-score, the first one among equals
RECURSIVE LowestF(_, _, _, _)
LowestF(open, f, idx, i) ==
  IF i > Len(open) THEN idx
  ELSE LowestF(open, f, IF GetOr(f, open[i]) < GetOr(f, open[idx]) THEN i ELSE idx, i + 1)

\* pathCubes: follow came back from the node reached
RECURSIVE ReconstructPath(_, _, _)
ReconstructPath(came, cur, acc) ==
  IF cur \in DOMAIN came THEN ReconstructPath(came, came[cur], <<came[cur]>> \o acc)
  ELSE acc

\* the for loop over the neighbours of current
RECURSIVE VisitNeighbors(_, _, _, _)
VisitNeighbors(st, current, nbs, goal) ==
  IF nbs = <<>> THEN st
  ELSE LET nb == Head(nbs)
           tentativeG == Plus(GetOr(st.g, current), 1)
       IN IF tentativeG < GetOr(st.g, nb)
          THEN VisitNeighbors(
                 [open |-> IF nb \in st.inOpen THEN st.open ELSE Append(st.open, nb),
                  inOpen |-> st.inOpen \cup {nb},
                  came |-> (nb :> current) @@ st.came,
                  g |-> (nb :> tentativeG) @@ st.g,
                  f |-> (nb :> tentativeG + HexDistance(nb, goal)) @@ st.f],
                 current, Tail(nbs), goal)
          ELSE VisitNeighbors(st, current, Tail(nbs), goal)

RECURSIVE HexAStarLoop(_, _, _, _)
HexAStarLoop(st, goal, startWorld, endWorld) ==
  IF st.open = <<>> THEN <<startWorld, endWorld>>
  ELSE LET idx == LowestF(st.open, st.f, 1, 2)
           current == st.open[idx]
           st1 == [st EXCEPT !.open = RemoveAt(@, idx), !.inOpen = @ \ {current}]
       IN IF HexDistance(current, goal) < 1
          THEN LET pathCubes == ReconstructPath(st.came, current, <<current>>)
               IN [i \in 1..Len(pathCubes) |-> CubeToPixel(pathCubes[i])]
          ELSE HexAStarLoop(VisitNeighbors(st1, current, GetHexNeighbors(current), goal),
                            goal, startWorld, endWorld)

HexAStar(startWorld, endWorld) ==
  LET start == PixelToCube(startWorld)
      goal == PixelToCube(endWorld)
  IN HexAStarLoop([open |-> <<start>>, inOpen |-> {start}, came |-> <<>>,
                   g |-> (start :> 0), f |-> (start :> HexDistance(start, goal))],
                  goal, startWorld, endWorld)

\* the loop that drops a point equal to the one before it
RECURSIVE DedupConsecutive(_, _)
DedupConsecutive(path, out) ==
  IF path = <<>> THEN out
  ELSE IF out = <<>> \/ out[Len(out)] # Head(path)
       THEN DedupConsecutive(Tail(path), Append(out, Head(path)))
       ELSE DedupConsecutive(Tail(path), out)

CreateHexPath(a, b) ==
  LET start == SnapToHexVertex(a)
      end == SnapToHexVertex(b)
      path == HexAStar(start, end)
  IN IF Len(path) = 0 THEN <<start, end>> ELSE DedupConsecutive(path, <<>>)

(***************************************************************************)
(* Specification SpecHex: createHexPath is called on pairs of endpoints    *)
(***************************************************************************)
MaxHexX == 6

MaxHexY == 4

HexInputs == (-MaxHexX..MaxHexX) \X (-MaxHexY..MaxHexY)

InitHex ==
  /\ SetWorldInit
  /\ lastOp = NoOp
  /\ IdleRest

\* one call of createHexPath; the function is pure, so a behaviour makes one call
HexRoute ==
  /\ hexIn = <<>>
  /\ \E a \in HexInputs, b \in HexInputs :
       /\ hexIn' = <<a, b>>
       /\ hexOut' = CreateHexPath(a, b)
       /\ lastOp' = [op |-> "createHexPath"]
       /\ UNCHANGED <<worldVars, opCount, etaOut>>

NextHex == HexRoute

SpecHex == InitHex /\ [][NextHex]_vars

(***************************************************************************)
(* Claims about the hex-grid router                                        *)
(***************************************************************************)
\* C10: for any two endpoints a and b, two endpoints that snap to the same
\* lattice vertex included, createHexPath returns at least 2 points, the first
\* the lattice-snapped a and the last the lattice-snapped b.
C10_HexPathHasTwoSnappedEnds ==
  hexIn # <<>> =>
    /\ Len(hexOut) >= 2
    /\ hexOut[1] = SnapToHexVertex(hexIn[1])
    /\ hexOut[Len(hexOut)] = SnapToHexVertex(hexIn[2])

\* createHexPath has returned for two different endpoints that snap to one vertex
C10_Witness ==
  /\ hexIn # <<>>
  /\ hexIn[1] # hexIn[2]
  /\ SnapToHexVertex(hexIn[1]) = SnapToHexVertex(hexIn[2])

(***************************************************************************)
(* Specification SpecTrains: passengers wait at a station, the player      *)
(* builds a line past it and the simulation is stepped with ticks of       *)
(* several lengths while more passengers spawn.                            *)
(***************************************************************************)
Spawn(o, d) == [op |-> "spawn", origin |-> o, dest |-> d]

\* a drag from station a released on station b
Connect(a, b) == [op |-> "connect", from |-> a, hit |-> b, shift |-> FALSE]

\* the same with the shift key held: always a new line
ConnectNew(a, b) == [op |-> "connect", from |-> a, hit |-> b, shift |-> TRUE]

\* the random draws of one tick
Draws(o, d) == [origin |-> o, dest |-> d, jitter |-> 0, draws |-> <<0, 1>>, pick |-> 0]

\* passengers waiting when the line is built
TrCrowd == 21

MaxTrSteps == 5

\* tick lengths (ms)
TrDts == {50, 4000, 100000}

\* (origin, destination) pairs the spawns draw
TrSpawnPairs == {<<1, 0>>, <<0, 1>>}

\* in the first script the fleet is used up by four other lines, so that the line
\* 0-1 runs a single train
TrainScripts ==
  { [i \in 1..TrCrowd |-> Spawn(1, 0)]
       \o <<Connect(2, 3), Connect(0, 3), Connect(1, 2), ConnectNew(3, 2), ConnectNew(0, 1)>>,
    [i \in 1..TrCrowd |-> Spawn(1, IF i % 2 = 0 THEN 0 ELSE 2)]
       \o <<Connect(0, 1), Connect(1, 2)>>,
    <<Spawn(1, 2), Spawn(0, 2), Connect(0, 1), Connect(1, 2), Connect(2, 3)>> }

InitTrains ==
  /\ \E script \in TrainScripts : WorldIs(Play(InitWorld, script))
  /\ lastOp = NoOp
  /\ IdleRest

\* one iteration of simulateWeeks' loop with opts.dt = dt
\* the draws of a tick are ones spawnPassenger can make in the world g it is called
\* on; a tick without a spawn takes one fixed pair
SpawnDrawOk(g, pair) ==
  IF SpawnDue(g) THEN pair[1] \in SpawnOrigins(g) /\ pair[2] \in SpawnDests(pair[1])
  ELSE pair = <<1, 0>>

TrStep ==
  \E dt \in TrDts, pair \in TrSpawnPairs :
    LET in == Draws(pair[1], pair[2])
    IN /\ opCount < MaxTrSteps
       /\ ~gameOver
       /\ SpawnDrawOk(SimBeforeSpawn(World, dt, in), pair)
       /\ SetWorld(SimStep(World, dt, in))
       /\ lastOp' = [op |-> "step", dt |-> dt]
       /\ opCount' = opCount + 1
       /\ UNCHANGED <<etaOut, hexIn, hexOut>>

NextTrains == TrStep

SpecTrains == InitTrains /\ [][NextTrains]_vars

(***************************************************************************)
(* Claims about the trains                                                 *)
(***************************************************************************)
\* C1: after every arrival-handling pass (disembark, transfer, board) a train
\* carries at most as many passengers as its capacity.
C1_PassengersWithinCapacity ==
  \A ti \in 1..Len(trains) : Len(trains[ti].passengers) <= trains[ti].capacity

\* a train stands at a station where it has just boarded up to its capacity while
\* the queue still holds a passenger who was ready and bound for a station of its line
C1_Witness ==
  \E ti \in 1..Len(trains) :
    LET train == trains[ti]
    IN /\ train.dwellRemaining > 0
       /\ Len(train.passengers) = train.capacity
       /\ HasLineAt(World, train.lineId)
       /\ \E i \in 1..Len(stations[train.lastStationVisited].queue) :
            LET p == stations[train.lastStationVisited].queue[i]
            IN /\ p.transferReadyAt <= gameTime
               /\ Includes(LineAt(World, train.lineId).stations, p.destStation)

\* C2: at the end of every tick, whatever its length, the normalized position of a
\* train on a non-loop line lies in [0, 1].
C2_PositionWithinLine ==
  \A ti \in 1..Len(trains) :
    LET train == trains[ti]
    IN (HasLineAt(World, train.lineId) /\ ~LineAt(World, train.lineId).isLoop) =>
         /\ train.position >= 0
         /\ train.position <= LineOne(LineAt(World, train.lineId))

\* a tick of the largest length has just put a train at the far end of its line
C2_Witness ==
  /\ lastOp.op = "step"
  /\ lastOp.dt = SetMax(TrDts)
  /\ \E ti \in 1..Len(trains) :
       /\ HasLineAt(World, trains[ti].lineId)
       /\ trains[ti].position = LineOne(LineAt(World, trains[ti].lineId))
       /\ trains[ti].dwellRemaining > 0

(***************************************************************************)
(* Specification SpecLoopLine: updateTrains on a line whose isLoop flag is *)
(* set.  createLine always clears the flag and nothing in the sources sets *)
(* it, so the flag is set here on lines the player has built: the game     *)
(* object is what a caller of the exported updateTrains hands in.          *)
(***************************************************************************)
LoopScripts ==
  { <<Spawn(1, 2), Connect(0, 1), Connect(1, 2), Connect(2, 0)>>,
    <<Spawn(1, 0), Connect(0, 1), Connect(1, 2)>> }

AsLoops(g) == [g EXCEPT !.lines = [k \in 1..Len(g.lines) |-> [g.lines[k] EXCEPT !.isLoop = TRUE]]]

InitLoopLine ==
  /\ \E script \in LoopScripts : WorldIs(AsLoops(Play(InitWorld, script)))
  /\ lastOp = NoOp
  /\ IdleRest

SpecLoopLine == InitLoopLine /\ [][NextTrains]_vars

SwCrowd == 17

MaxSwSteps == 4

MaxDump == 12

SwDts == {27500, 55000, 250000}

SwSpawnPairs == {<<0, 1>>, <<1, 0>>}

SweepScripts ==
  { [i \in 1..SwCrowd |-> Spawn(0, 1)],
    <<Spawn(0, 2), Spawn(0, 2), Spawn(3, 0), Connect(0, 1)>>,
    <<Spawn(0, 1), Spawn(0, 2), Spawn(1, 2), Connect(0, 1), Connect(1, 2)>> }

InitSweep ==
  /\ \E script \in SweepScripts : WorldIs(Play(InitWorld, script))
  /\ lastOp = NoOp
  /\ IdleRest

SwStep ==
  \E dt \in SwDts, pair \in SwSpawnPairs :
    LET in == Draws(pair[1], pair[2])
    IN /\ opCount < MaxSwSteps
       /\ ~gameOver
       /\ SpawnDrawOk(SimBeforeSpawn(World, dt, in), pair)
       /\ SetWorld(SimStep(World, dt, in))
       /\ lastOp' = [op |-> "step", dt |-> dt]
       /\ opCount' = opCount + 1
       /\ UNCHANGED <<etaOut, hexIn, hexOut>>

\* MM.removeLine / the line menu: every passenger aboard is put down at station `w`
SwRemove ==
  \E k \in 1..Len(lines), w \in StationIds :
    /\ opCount < MaxSwSteps
    /\ ~gameOver
    /\ SetWorld(RemoveLine(World, lines[k].id, [i \in 1..MaxDump |-> w]))
    /\ lastOp' = [op |-> "remove", lineId |-> lines[k].id]
    /\ opCount' = opCount + 1
    /\ UNCHANGED <<etaOut, hexIn, hexOut>>

NextSweep == SwStep \/ SwRemove

SpecSweep == InitSweep /\ [][NextSweep]_vars

\* what the log of the tick that has just run says about a passenger
SwWait(p) == gameTime - p.spawnTime

SwFiniteEta(e, p) == IsFinite(EstimateETA(lines, e.st, p.destStation))

SwConnected(e) == Len(stations[e.st].connections) > 0

SwIds(queue) == {queue[i].id : i \in 1..Len(queue)}

SwStays(e, p) == p.id \in SwIds(e.after)

SwSwept == lastOp.op = "step"

C5_StrandedRemovedQuietly ==
  SwSwept =>
    \A k \in 1..Len(sweepLog) :
      LET e == sweepLog[k]
          stays(p) == SwStays(e, p)
          strandedAt(i) == /\ SwWait(e.examined[i]) > MaxWaitSeconds * 1000
                           /\ ~SwFiniteEta(e, e.examined[i])
          servedLate(i) == /\ SwWait(e.examined[i]) > MaxWaitSeconds * 1000
                           /\ SwFiniteEta(e, e.examined[i])
      IN ~e.ended =>
           /\ \A i \in 1..Len(e.examined) : strandedAt(i) => ~SwStays(e, e.examined[i])
           /\ \A i \in 1..Len(e.examined) :
                SwWait(e.examined[i]) <= MaxWaitSeconds * 1000 => SwStays(e, e.examined[i])
           /\ e.after = SelectSeq(e.examined, stays)
           /\ (\A i \in 1..Len(e.examined) : ~servedLate(i)) =>
                /\ Len(e.after) = Len(e.examined) - Cardinality({i \in 1..Len(e.examined) : strandedAt(i)})
                /\ e.missedCalls = 0
                /\ (e.gameOver => \E j \in 1..(k - 1) : sweepLog[j].gameOver)

\* two stranded passengers are removed from in front of one that stays; the game goes on
C5_Witness ==
  /\ SwSwept
  /\ ~gameOver
  /\ \E k \in 1..Len(sweepLog) :
       LET e == sweepLog[k]
       IN /\ ~e.ended
          /\ Len(e.examined) >= 3
          /\ SwWait(e.examined[1]) > MaxWaitSeconds * 1000 /\ ~SwFiniteEta(e, e.examined[1])
          /\ SwWait(e.examined[2]) > MaxWaitSeconds * 1000 /\ ~SwFiniteEta(e, e.examined[2])
          /\ e.after = SubSeq(e.examined, 3, Len(e.examined))

\* C6 as claimed: at a station whose queue the sweep examines, endGame is called with
\* the missed-connection reason exactly when some passenger there has a finite ETA to
\* its destination and has waited longer than maxWaitSeconds x
\* missedConnectionMultiplier; a passenger with a finite ETA whose wait lies between
\* maxWaitSeconds and that multiple stays in its queue.
C6_MissedExactlyWhenFiniteEta ==
  SwSwept =>
    \A k \in 1..Len(sweepLog) :
      LET e == sweepLog[k]
          between(w) == /\ w > MaxWaitSeconds * 1000
                        /\ w <= MaxWaitSeconds * MissedConnectionMultiplier * 1000
      IN ~e.ended =>
           /\ (e.missedCalls > 0) <=>
                \E i \in 1..Len(e.examined) :
                  /\ SwFiniteEta(e, e.examined[i])
                  /\ SwWait(e.examined[i]) > MaxWaitSeconds * MissedConnectionMultiplier * 1000
           /\ (e.missedCalls > 0) =>
                e.gameOver /\ e.goReason = [kind |-> "missed", station |-> e.st]
           /\ \A i \in 1..Len(e.examined) :
                (SwFiniteEta(e, e.examined[i]) /\ between(SwWait(e.examined[i]))) =>
                  SwStays(e, e.examined[i])

\* C6 as amended: the same, for the passengers of a station that has at least one
\* connection; a station without connections has its overdue passengers removed.
C6_MissedExactlyWhenServed ==
  SwSwept =>
    \A k \in 1..Len(sweepLog) :
      LET e == sweepLog[k]
          between(w) == /\ w > MaxWaitSeconds * 1000
                        /\ w <= MaxWaitSeconds * MissedConnectionMultiplier * 1000
      IN ~e.ended =>
           /\ (e.missedCalls > 0) <=>
                \E i \in 1..Len(e.examined) :
                  /\ SwConnected(e)
                  /\ SwFiniteEta(e, e.examined[i])
                  /\ SwWait(e.examined[i]) > MaxWaitSeconds * MissedConnectionMultiplier * 1000
           /\ (e.missedCalls > 0) =>
                e.gameOver /\ e.goReason = [kind |-> "missed", station |-> e.st]
           /\ \A i \in 1..Len(e.examined) :
                (SwConnected(e) /\ SwFiniteEta(e, e.examined[i]) /\ between(SwWait(e.examined[i]))) =>
                  SwStays(e, e.examined[i])

\* a served passenger has waited beyond the larger multiple and ends the game, while a
\* served passenger overdue by less stayed in its queue
C6_Witness ==
  /\ SwSwept
  /\ gameOver
  /\ goReason.kind = "missed"
  /\ \E k \in 1..Len(sweepLog) :
       LET e == sweepLog[k]
       IN /\ ~e.ended
          /\ e.missedCalls > 0
          /\ SwConnected(e)
          /\ \E i \in 1..Len(e.examined) :
               /\ SwFiniteEta(e, e.examined[i])
               /\ SwWait(e.examined[i]) > MaxWaitSeconds * MissedConnectionMultiplier * 1000
  /\ \E k \in 1..Len(sweepLog) :
       LET e == sweepLog[k]
       IN /\ SwConnected(e)
          /\ \E i \in 1..Len(e.examined) :
               /\ SwFiniteEta(e, e.examined[i])
               /\ SwWait(e.examined[i]) > MaxWaitSeconds * 1000
               /\ SwWait(e.examined[i]) <= MaxWaitSeconds * MissedConnectionMultiplier * 1000
               /\ SwStays(e, e.examined[i])

(***************************************************************************)
(* Specification SpecLoop: the frame loop at the fast setting (timeScale   *)
(* 2, frames at least 50 ms apart), the player choosing the weekly reward. *)
(* The spawner's draws fill the lowest-numbered station that has room.     *)
(***************************************************************************)
\* Math.min(50, ts - last) * game.timeScale
LoopDt == 100

MaxLoopMs == 142000

FrameScripts == { <<>>, <<Connect(2, 3)>> }

InitLoop ==
  /\ \E script \in FrameScripts : WorldIs(Play(InitWorld, script))
  /\ lastOp = NoOp
  /\ IdleRest

FrameDraws(g) ==
  LET origin == SetMin(SpawnOrigins(g))
  IN Draws(origin, SetMin(SpawnDests(origin)))

\* one requestAnimationFrame callback
LoopFrame ==
  /\ gameOver \/ gameTime < MaxLoopMs
  /\ SetWorld(LoopTick(World, LoopDt, FrameDraws(LoopBeforeSpawn(World, LoopDt))))
  /\ lastOp' = [op |-> "frame", ran |-> LoopRan(World, LoopDt)]
  /\ UNCHANGED <<opCount, etaOut, hexIn, hexOut>>

\* the player clicks one of the rewards of the weekly dialog
RewardPick ==
  \E type \in RewardsOffered(World) :
    /\ paused
    /\ SetWorld(ApplyReward(World, type, 0))
    /\ lastOp' = [op |-> "reward", type |-> type]
    /\ UNCHANGED <<opCount, etaOut, hexIn, hexOut>>

NextLoop == LoopFrame \/ RewardPick

SpecLoop == InitLoop /\ [][NextLoop]_vars

\* C7: gameOver is terminal: once it is true it stays true, and a later tick runs no
\* part of the simulation (clock, spawner, trains, allocator, route builder, sweep) and
\* leaves the whole game state, the station queues included, as it was.
C7_GameOverTerminal ==
  [][gameOver =>
       /\ gameOver'
       /\ LoopFrame => (lastOp'.ran = {} /\ UNCHANGED worldVars)]_vars

\* the game has ended by overcrowding while the game was not paused, and a frame has
\* come after it
C7_Witness ==
  /\ gameOver
  /\ ~paused
  /\ goReason.kind = "overcrowded"
  /\ lastOp = [op |-> "frame", ran |-> {}]

(***************************************************************************)
(* Specification SpecRound: the round-trip scenario.  One line between     *)
(* stations 0 and 1 (153 units), one train whose speed takes it over the   *)
(* line in 1000 ms, stations with a turnaround of 0; updateTrains is       *)
(* called with one tick length per run.  step / total = dt / 1000 as in    *)
(* the scenario's 1000 units at 1 unit/ms.                                 *)
(***************************************************************************)
\* the speed that covers line 0-1 in 1000 ms, in 1/SpeedDen units per ms
RoundSpeed == (Dist(0, 1) * SpeedDen) \div 1000

MaxRoundMs == 7000

RoundDts == {16, 50, 125, 300, 1000}

RoundWorld ==
  LET g == CreateLine(InitWorld, <<0, 1>>)
      train == [g.trains[1] EXCEPT !.speed = RoundSpeed]
  IN [g EXCEPT !.trains = <<train>>,
               !.lines[1].trains = <<train.id>>,
               !.stations = [i \in StationIds |-> [g.stations[i] EXCEPT !.turnaroundMs = 0]]]

NoArrivals == [st \in StationIds |-> -1]

InitRound ==
  /\ WorldIs(RoundWorld)
  /\ \E dt \in RoundDts : lastOp = [op |-> "init", dt |-> dt, at |-> NoArrivals, gap |-> -1]
  /\ IdleRest

\* one call of updateTrains(game, dt) after the clock has advanced; an arrival is seen
\* by the cooldown arriveAtStationIdx starts
RoundLog(g, last) ==
  LET train == g.trains[1]
      st == train.lastStationVisited
  IN IF train.stationCooldown = 600 * TimerDen
     THEN [op |-> "tick", dt |-> last.dt,
           at |-> [last.at EXCEPT ![st] = g.gameTime],
           gap |-> IF last.at[st] < 0 THEN -1 ELSE g.gameTime - last.at[st]]
     ELSE [last EXCEPT !.op = "tick", !.gap = -1]

RoundTick ==
  \E g1 \in {UpdateTrains([World EXCEPT !.gameTime = @ + lastOp.dt], lastOp.dt)} :
    /\ gameTime < MaxRoundMs
    /\ SetWorld(g1)
    /\ lastOp' = RoundLog(g1, lastOp)
    /\ UNCHANGED <<opCount, etaOut, hexIn, hexOut>>

NextRound == RoundTick

SpecRound == InitRound /\ [][NextRound]_vars

\* C11 as claimed: whatever the tick length, two successive arrivals at the same
\* terminal are exactly 2000 ms apart.
C11_RoundTripAnyTick == lastOp.op = "tick" /\ lastOp.gap >= 0 => lastOp.gap = 2000

\* C11 as amended: with a tick length that divides 1000 ms, two successive arrivals at
\* the same terminal are exactly 2000 ms apart.
C11_RoundTripDividingTick ==
  (lastOp.op = "tick" /\ lastOp.gap >= 0 /\ 1000 % lastOp.dt = 0) => lastOp.gap = 2000

\* the train is back at the far terminal 2000 ms after its last arrival there
C11_Witness ==
  /\ lastOp.op = "tick"
  /\ lastOp.gap = 2000
  /\ trains[1].lastStationVisited = 1
  /\ trains[1].position = LineOne(lines[1])

(***************************************************************************)
(* The auto-router's two ways of changing the network (auto_routing.js).   *)
(* Which stations it picks is an input.                                    *)
(***************************************************************************)
\* createAutoLine(stationIds, reason)
CreateAutoLine(g, sts) ==
  IF g.linesAvailable <= 0 \/ Len(sts) < 2 THEN g
  ELSE LET newId == Len(g.lines)
           g1 == [CreateLine(g, sts) EXCEPT !.linesAvailable = @ - 1]
           line == g1.lines[newId + 1]
           g2 == IF g1.trainsAvailable > 0 /\ CreateTrainOk(g1, line.id)
                 THEN [CreateTrain(g1, line.id) EXCEPT !.trainsAvailable = @ - 1]
                 ELSE g1
           longRoute == Len(line.stations) >= 3 \/ line.totalLength > 500
       IN IF g1.trainsAvailable > 0 /\ g.day <= 3 /\ longRoute
             /\ g2.trainsAvailable > 0 /\ CreateTrainOk(g2, line.id)
          THEN [CreateTrain(g2, line.id) EXCEPT !.trainsAvailable = @ - 1]
          ELSE g2

\* autoExtendLine(line, targetStation, reason) for the line at index k of game.lines
AutoExtendLine(g, k, target) ==
  LET line == g.lines[k]
      first == line.stations[1]
      last == line.stations[Len(line.stations)]
      newSts == IF Dist(first, target) < Dist(last, target)
                THEN <<target>> \o line.stations ELSE Append(line.stations, target)
      g1 == Rescaled(RebuildWaypointsForLine(
              [g EXCEPT !.lines[k].stations = newSts,
                        !.lines[k].totalLength = PathLength(newSts),
                        !.stations[target].connections = PushUnique(@, line.id)], k))
  IN IF Len(line.trains) = 0 /\ g1.trainsAvailable > 0 /\ CreateTrainOk(g1, line.id)
     THEN [CreateTrain(g1, line.id) EXCEPT !.trainsAvailable = @ - 1]
     ELSE g1

(***************************************************************************)
(* Specification SpecAlloc: the fleet allocator's scenario.  The pool is   *)
(* exhausted; the player and the auto-router build up to MaxAllocLines     *)
(* lines, passengers arrive, the pool is replenished and the allocator     *)
(* pass runs.                                                              *)
(***************************************************************************)
MaxAllocLines == 2

MaxAllocLineLen == 3

MaxAllocCrowd == 3

MaxAllocPool == 1

MaxAllocDay == 3

\* operations other than allocator passes
MaxAllocOps == 5

\* the drags of the player and the station pairs the auto-router picks
AllocPlayerPairs == {<<1, 2>>, <<2, 3>>, <<0, 1>>}

AllocAutoPairs == {<<0, 3>>, <<0, 1>>}

\* origin and destination of the passengers that arrive
AllocSpawnPairs == {<<1, 2>>, <<0, 3>>}

AllocWorld == [InitWorld EXCEPT !.trainsAvailable = 0]

InitAlloc ==
  /\ WorldIs(AllocWorld)
  /\ lastOp = NoOp
  /\ IdleRest

AllocRest == opCount' = opCount + 1 /\ UNCHANGED <<etaOut, hexIn, hexOut>>

\* the player drags from one station to another
AlPlayerLine ==
  \E pair \in AllocPlayerPairs :
    LET from == pair[1]
        hit == pair[2]
        ext == Len(Extendable(World, from)) > 0
    IN /\ opCount < MaxAllocOps
       /\ IF ext THEN Len(Extendable(World, from)[1].stations) < MaxAllocLineLen
                 ELSE Len(lines) < MaxAllocLines
       /\ SetWorld(PointerUpConnect(World, from, hit, FALSE))
       /\ lastOp' = [op |-> IF ext THEN "extend" ELSE "create"]
       /\ AllocRest

\* the auto-router creates a line
AlAutoLine ==
  \E pair \in AllocAutoPairs :
    /\ opCount < MaxAllocOps
    /\ Len(lines) < MaxAllocLines
    /\ SetWorld(CreateAutoLine(World, pair))
    /\ lastOp' = [op |-> "autoLine"]
    /\ AllocRest

\* the auto-router extends a line
AlAutoExtend ==
  \E k \in 1..Len(lines), target \in StationIds :
    /\ opCount < MaxAllocOps
    /\ ~Includes(lines[k].stations, target)
    /\ Len(lines[k].stations) < MaxAllocLineLen
    /\ SetWorld(AutoExtendLine(World, k, target))
    /\ lastOp' = [op |-> "autoExtend"]
    /\ AllocRest

AlSpawn ==
  \E pair \in AllocSpawnPairs :
    /\ opCount < MaxAllocOps
    /\ totalPassengers < MaxAllocCrowd
    /\ SetWorld(SpawnPassenger(World, pair[1], pair[2]))
    /\ lastOp' = [op |-> "spawn"]
    /\ AllocRest

\* the week rolls over: game.day++; game.trainsAvailable++
AlReplenish ==
  /\ opCount < MaxAllocOps
  /\ trainsAvailable < MaxAllocPool
  /\ day < MaxAllocDay
  /\ SetWorld([World EXCEPT !.day = @ + 1, !.trainsAvailable = @ + 1])
  /\ lastOp' = [op |-> "replenish"]
  /\ AllocRest

\* what a pass of the allocator is given
AllocBefore(g) ==
  [op |-> "pass", pool |-> g.trainsAvailable,
   counts |-> [k \in 1..Len(g.lines) |-> Len(g.lines[k].trains)],
   priority |-> [k \in 1..Len(g.lines) |-> LineStats(g, g.lines[k]).priority],
   deficit |-> [k \in 1..Len(g.lines) |-> LineStats(g, g.lines[k]).deficit]]

\* optimizeTrainAllocation(game)
AlPass ==
  /\ SetWorld(OptimizeTrainAllocation(World))
  /\ lastOp' = AllocBefore(World)
  /\ UNCHANGED <<opCount, etaOut, hexIn, hexOut>>

NextAlloc == AlPlayerLine \/ AlAutoLine \/ AlAutoExtend \/ AlSpawn \/ AlReplenish \/ AlPass

SpecAlloc == InitAlloc /\ [][NextAlloc]_vars

\* the pass that has just run had one pooled vehicle and two lines, the line at index z
\* without a vehicle and the line at index o with one or more
AllocCase(z, o) ==
  /\ lastOp.op = "pass"
  /\ lastOp.pool = 1
  /\ Len(lastOp.counts) = 2
  /\ z \in 1..2 /\ o \in 1..2
  /\ lastOp.counts[z] = 0
  /\ lastOp.counts[o] >= 1

MaxFleetOps == 5

MaxFleetDay == 3

FleetPlayerPairs == {<<0, 1>>, <<1, 2>>, <<2, 3>>}

FleetAutoPairs == {<<0, 3>>, <<1, 3>>}

InitFleet ==
  /\ SetWorldInit
  /\ lastOp = NoOp
  /\ IdleRest

FleetRest == UNCHANGED <<etaOut, hexIn, hexOut>>

FlPlayerLine ==
  \E pair \in FleetPlayerPairs, shift \in BOOLEAN :
    /\ opCount < MaxFleetOps
    /\ (shift => Len(Extendable(World, pair[1])) > 0)
    /\ SetWorld(PointerUpConnect(World, pair[1], pair[2], shift))
    /\ lastOp' = [op |-> "connect"]
    /\ opCount' = opCount + 1
    /\ FleetRest

FlAutoLine ==
  \E pair \in FleetAutoPairs :
    /\ opCount < MaxFleetOps
    /\ SetWorld(CreateAutoLine(World, pair))
    /\ lastOp' = [op |-> "autoLine"]
    /\ opCount' = opCount + 1
    /\ FleetRest

\* what removeLine is called on and what it leaves before the reallocation
RemoveLog(g, gc, lineId) ==
  [op |-> "remove", lineId |-> lineId, line |-> g.lines[FindLineIndex(g, lineId)],
   lines |-> g.lines, trains |-> g.trains, pool |-> g.trainsAvailable,
   permits |-> g.linesAvailable,
   trainsLeft |-> gc.trains, poolLeft |-> gc.trainsAvailable,
   permitsLeft |-> gc.linesAvailable,
   connectionsLeft |-> [st \in StationIds |-> gc.stations[st].connections]]

FlRemove ==
  \E k \in 1..Len(lines) :
    /\ opCount < MaxFleetOps
    /\ SetWorld(RemoveLine(World, lines[k].id, <<>>))
    /\ lastOp' = RemoveLog(World, RemoveLineCore(World, lines[k].id, <<>>), lines[k].id)
    /\ opCount' = opCount + 1
    /\ FleetRest

\* the week rolls over: game.day++; game.trainsAvailable++
FlReplenish ==
  /\ day < MaxFleetDay
  /\ SetWorld([World EXCEPT !.day = @ + 1, !.trainsAvailable = @ + 1])
  /\ lastOp' = [op |-> "replenish"]
  /\ UNCHANGED opCount
  /\ FleetRest

\* the allocator pass of the frame loop
FlPass ==
  \E g \in {OptimizeTrainAllocation(World)} :
    /\ SetWorld(g)
    /\ lastOp' = [op |-> "pass"]
    /\ UNCHANGED opCount
    /\ FleetRest

NextFleet == FlPlayerLine \/ FlAutoLine \/ FlRemove \/ FlReplenish \/ FlPass

SpecFleet == InitFleet /\ [][NextFleet]_vars

\* the networks the fair specification starts from: the player has built three lines
FairScripts ==
  { <<Connect(0, 1), ConnectNew(1, 2), ConnectNew(2, 3)>>,
    <<Connect(0, 1), Connect(1, 2), ConnectNew(2, 3)>> }

InitFleetFair ==
  \E script \in FairScripts :
    /\ WorldIs(Play(InitWorld, script))
    /\ lastOp = NoOp
    /\ opCount = Len(script)
    /\ etaOut = NoEta /\ hexIn = <<>> /\ hexOut = <<>>

SpecFleetFair ==
  InitFleetFair /\ [][NextFleet]_vars /\ WF_vars(FlPass) /\ WF_vars(FlReplenish)

AllLinesServed == \A k \in 1..Len(lines) : Len(lines[k].trains) >= 1

\* the last modelled week has come and its vehicle is spent
FleetHorizon == day = MaxFleetDay /\ trainsAvailable = 0

InitFleetBuilt ==
  \E script \in FairScripts :
    /\ WorldIs(Play(InitWorld, script))
    /\ lastOp = NoOp
    /\ opCount = 1
    /\ etaOut = NoEta /\ hexIn = <<>> /\ hexOut = <<>>

SpecFleetBuilt == InitFleetBuilt /\ [][NextFleet]_vars

\* the trains createTrain put on the line, in game.trains order
TrainsOf(allTrains, line) ==
  SelectSeq(allTrains, LAMBDA t : \E j \in 1..Len(line.serials) : line.serials[j] = t.serial)

\* C14: removeLine(id) on an existing line removes from the world exactly the vehicles
\* assigned to that line, raises trainsAvailable by the number of vehicles removed and
\* linesAvailable by 1, and removes the id from the connections of the line's stations
C14_RemoveLineExact ==
  lastOp.op = "remove" =>
    /\ lastOp.trainsLeft =
         SelectSeq(lastOp.trains,
                   LAMBDA t : \A j \in 1..Len(lastOp.line.serials) :
                                lastOp.line.serials[j] # t.serial)
    /\ lastOp.poolLeft = lastOp.pool + Len(TrainsOf(lastOp.trains, lastOp.line))
    /\ lastOp.poolLeft = lastOp.pool + (Len(lastOp.trains) - Len(lastOp.trainsLeft))
    /\ lastOp.permitsLeft = lastOp.permits + 1
    /\ \A j \in 1..Len(lastOp.line.stations) :
         ~Includes(lastOp.connectionsLeft[lastOp.line.stations[j]], lastOp.lineId)

\* a line with vehicles was removed while another line held vehicles
C14_Witness ==
  /\ lastOp.op = "remove"
  /\ Len(lastOp.line.trains) > 0
  /\ Len(lastOp.trainsLeft) > 0
  /\ Len(lastOp.trainsLeft) < Len(lastOp.trains)

(***************************************************************************)
(* Specification SpecPermit: every path that adds a segment to a line.     *)
(* The player draws lines and extends them by dragging from an endpoint,   *)
(* inserts stations, and the auto-router creates and extends lines.        *)
(***************************************************************************)
MaxPermitOps == 3

MaxPermitLineLen == 3

\* the station-to-station segments of a line that cross the polygon
CrossingSegs(sts) ==
  {seg \in {{sts[j], sts[j + 1]} : j \in 1..(Len(sts) - 1)} :
     \E a \in seg, b \in seg : Crosses(a, b)}

\* the crossing segments the lines `new` have and the lines `old` had not
AddedCrossings(old, new) ==
  Cardinality({ks \in UNION {{<<k, seg>> : seg \in CrossingSegs(new[k].stations)} :
                               k \in 1..Len(new)} :
                 ks[1] > Len(old) \/ ks[2] \notin CrossingSegs(old[ks[1]].stations)})

PermitLog(g, g2, op) ==
  [op |-> op, added |-> AddedCrossings(g.lines, g2.lines),
   permits |-> g.tunnels, permitsLeft |-> g2.tunnels]

InitPermit ==
  /\ SetWorldInit
  /\ lastOp = NoOp
  /\ IdleRest

PermitRest == opCount' = opCount + 1 /\ UNCHANGED <<etaOut, hexIn, hexOut>>

\* pointerup after a drag: a new line, or an extension from an endpoint
PmConnect ==
  \E from \in StationIds, hit \in StationIds, shift \in BOOLEAN :
    /\ opCount < MaxPermitOps
    /\ hit # from
    /\ (shift => Len(Extendable(World, from)) > 0)
    /\ (Len(Extendable(World, from)) > 0 /\ ~shift =>
          Len(Extendable(World, from)[1].stations) < MaxPermitLineLen)
    /\ \E g \in {PointerUpConnect(World, from, hit, shift)} :
         /\ SetWorld(g)
         /\ lastOp' = PermitLog(World, g,
                                IF Len(Extendable(World, from)) > 0 /\ ~shift
                                THEN "extend" ELSE "create")
    /\ PermitRest

\* pointerup on a selected line: canInsertStationAt rejects a station of the line
PmInsert ==
  \E k \in 1..Len(lines), st \in StationIds, position \in {-1, 0, 1} :
    /\ opCount < MaxPermitOps
    /\ Len(lines[k].stations) < MaxPermitLineLen
    /\ ~Includes(lines[k].stations, st)
    /\ \E g \in {AddStationToLine(World, lines[k].id, st, position)} :
         /\ SetWorld(g)
         /\ lastOp' = PermitLog(World, g, "insert")
    /\ PermitRest

PmAutoLine ==
  \E from \in StationIds, to \in StationIds :
    /\ opCount < MaxPermitOps
    /\ from # to
    /\ \E g \in {CreateAutoLine(World, <<from, to>>)} :
         /\ SetWorld(g)
         /\ lastOp' = PermitLog(World, g, "autoLine")
    /\ PermitRest

PmAutoExtend ==
  \E k \in 1..Len(lines), target \in StationIds :
    /\ opCount < MaxPermitOps
    /\ ~Includes(lines[k].stations, target)
    /\ Len(lines[k].stations) < MaxPermitLineLen
    /\ \E g \in {AutoExtendLine(World, k, target)} :
         /\ SetWorld(g)
         /\ lastOp' = PermitLog(World, g, "autoExtend")
    /\ PermitRest

NextPermit == PmConnect \/ PmInsert \/ PmAutoLine \/ PmAutoExtend

SpecPermit == InitPermit /\ [][NextPermit]_vars

\* C15: on every path a segment that crosses the polygon is added to a line only if
\* a permit is available, and one permit is consumed per crossing segment added
C15_PermitGatesEveryPath ==
  lastOp.op # "init" /\ lastOp.added > 0 =>
    /\ lastOp.permits >= lastOp.added
    /\ lastOp.permitsLeft = lastOp.permits - lastOp.added

\* the paths that ask for a permit: the player's new line and the station insertion
PermitGatesPlayerLineAndInsert ==
  lastOp.op \in {"create", "insert"} /\ lastOp.added > 0 =>
    /\ lastOp.permits >= lastOp.added
    /\ lastOp.permitsLeft = lastOp.permits - lastOp.added

\* a crossing segment was added with no permit left
C15_Witness ==
  /\ lastOp.op \in {"extend", "autoLine", "autoExtend"}
  /\ lastOp.added > 0
  /\ lastOp.permits = 0

(***************************************************************************)
(* Specification SpecCreate: createLine is called with any short sequence  *)
(* of station ids, on the initial world and on the worlds it leaves.       *)
(***************************************************************************)
MaxCreateOps == 2

MaxCreateLen == 3

CreateInputs ==
  UNION {[1..n -> StationIds] : n \in 0..MaxCreateLen}

\* createLine returns null or the line
CreateLineReturnsLine(g, sts) == Len(sts) >= 2

InitCreate ==
  /\ SetWorldInit
  /\ lastOp = NoOp
  /\ IdleRest

CrCreateLine ==
  \E sts \in CreateInputs :
    /\ opCount < MaxCreateOps
    /\ \E g \in {CreateLine(World, sts)} :
         /\ SetWorld(g)
         /\ lastOp' = [op |-> "createLine", stations |-> sts,
                       returned |-> CreateLineReturnsLine(World, sts), before |-> World]
    /\ opCount' = opCount + 1
    /\ UNCHANGED <<etaOut, hexIn, hexOut>>

NextCreate == CrCreateLine

SpecCreate == InitCreate /\ [][NextCreate]_vars

InvalidCreateRequest(sts) ==
  Len(sts) < 2 \/ (Len(sts) = 2 /\ sts[1] = sts[2])

\* C16: createLine with fewer than 2 station ids or with two equal station ids returns
\* a failure indicator and changes no state
C16_InvalidCreateLineRejected ==
  lastOp.op = "createLine" /\ InvalidCreateRequest(lastOp.stations) =>
    ~lastOp.returned /\ World = lastOp.before

\* the part of it the code keeps: fewer than 2 station ids
CreateLineRejectsShort ==
  lastOp.op = "createLine" /\ Len(lastOp.stations) < 2 =>
    ~lastOp.returned /\ World = lastOp.before

\* createLine was called with two equal station ids
C16_Witness ==
  /\ lastOp.op = "createLine"
  /\ Len(lastOp.stations) = 2
  /\ lastOp.stations[1] = lastOp.stations[2]
  /\ Len(lines) = Len(lastOp.before.lines) + 1

(***************************************************************************)
(* Specification SpecInsert: the player draws lines and inserts stations   *)
(* into them until the permits run out.                                    *)
(***************************************************************************)
MaxInsertOps == 3

MaxInsertLineLen == 3

InitInsert ==
  /\ SetWorldInit
  /\ lastOp = NoOp
  /\ IdleRest

InsertRest == opCount' = opCount + 1 /\ UNCHANGED <<etaOut, hexIn, hexOut>>

InConnect ==
  \E from \in StationIds, hit \in StationIds :
    /\ opCount < MaxInsertOps
    /\ hit # from
    /\ Len(Extendable(World, from)) = 0
    /\ SetWorld(PointerUpConnect(World, from, hit, FALSE))
    /\ lastOp' = [op |-> "create"]
    /\ InsertRest

\* addStationToLine(game, lineId, st, position) with what it returned
InInsert ==
  \E k \in 1..Len(lines), st \in StationIds, position \in {-1, 0, 1} :
    /\ opCount < MaxInsertOps
    /\ Len(lines[k].stations) < MaxInsertLineLen
    /\ ~Includes(lines[k].stations, st)
    /\ \E g \in {AddStationToLine(World, lines[k].id, st, position)} :
         /\ SetWorld(g)
         /\ lastOp' = [op |-> "insert", index |-> k, st |-> st, position |-> position,
                       returned |-> AddStationToLineOk(World, lines[k].id, st, position),
                       before |-> World]
    /\ InsertRest

NextInsert == InConnect \/ InInsert

SpecInsert == InitInsert /\ [][NextInsert]_vars

\* how many of the segments next to a station inserted at `position` cross the polygon
\* (position -1: appended)
InsertCrossings(sts, st, position) ==
  LET at == IF position = -1 \/ position > Len(sts) THEN Len(sts) ELSE position
  IN Cardinality({j \in {at, at + 1} : j >= 1 /\ j <= Len(sts) /\ Crosses(sts[j], st)})

InsertLacksPermits ==
  /\ lastOp.op = "insert"
  /\ InsertCrossings(lastOp.before.lines[lastOp.index].stations, lastOp.st, lastOp.position)
       > lastOp.before.tunnels

\* C17: addStationToLine returns false and leaves the lines (station sequences and
\* lengths), the stations' connections, the permit count and the vehicle pool
\* unchanged when the segments next to the inserted station cross the polygon more
\* times than there are permits
C17_InsertRejectedWithoutPermits ==
  InsertLacksPermits =>
    /\ ~lastOp.returned
    /\ lines = lastOp.before.lines
    /\ \A i \in StationIds : stations[i].connections = lastOp.before.stations[i].connections
    /\ tunnels = lastOp.before.tunnels
    /\ trainsAvailable = lastOp.before.trainsAvailable

\* an insertion in the middle needed two permits and one was left
C17_Witness ==
  /\ InsertLacksPermits
  /\ lastOp.before.tunnels = 1
  /\ lastOp.position = 1

(***************************************************************************)
(* Specification SpecTick: simulation steps of both drivers, the frame     *)
(* loop and the iterations of simulateWeeks, on small networks.            *)
(***************************************************************************)
MaxTickSteps == 5

\* opts.dt of simulateWeeks (ms)
TickDts == {100, 1600}

TickScripts ==
  { <<Spawn(2, 3), Connect(2, 3)>>,
    <<Spawn(0, 1), Spawn(1, 2), Connect(0, 1), Connect(1, 2)>> }

TickSpawnPairs == {<<0, 1>>, <<3, 2>>, <<1, 0>>}

InitTick ==
  /\ \E script \in TickScripts : WorldIs(Play(InitWorld, script))
  /\ lastOp = NoOp
  /\ IdleRest

TickRest == opCount' = opCount + 1 /\ UNCHANGED <<etaOut, hexIn, hexOut>>

\* one requestAnimationFrame callback
TkFrame ==
  \E pair \in TickSpawnPairs :
    /\ opCount < MaxTickSteps
    /\ ~paused /\ ~gameOver
    /\ SpawnDrawOk(LoopBeforeSpawn(World, LoopDt), pair)
    /\ SetWorld(LoopTick(World, LoopDt, Draws(pair[1], pair[2])))
    /\ lastOp' = [op |-> "frame"]
    /\ TickRest

\* one iteration of the while loop of simulateWeeks
TkSim ==
  \E dt \in TickDts, pair \in TickSpawnPairs :
    /\ opCount < MaxTickSteps
    /\ ~gameOver
    /\ SpawnDrawOk(SimBeforeSpawn(World, dt, Draws(pair[1], pair[2])), pair)
    /\ SetWorld(SimStep(World, dt, Draws(pair[1], pair[2])))
    /\ lastOp' = [op |-> "sim"]
    /\ TickRest

NextTick == TkFrame \/ TkSim

SpecTick == InitTick /\ [][NextTick]_vars

\* the sweeps of the step that has just run: each starts at station 0
SweepStarts == {k \in 1..Len(sweepLog) : sweepLog[k].st = 0}

\* nothing ran after the sweep: the queues and flags are as its last pass left them
SweepRanLast ==
  \A k \in 1..Len(sweepLog) :
    k >= SetMax(SweepStarts) =>
      /\ stations[sweepLog[k].st].isOvercrowded = sweepLog[k].flag
      /\ SwIds(stations[sweepLog[k].st].queue) \subseteq SwIds(sweepLog[k].after)

\* C18: in every simulation step, of the frame loop and of simulateWeeks alike, the
\* sweep runs exactly once, after the step's vehicle motion, reallocation and route
\* building
C18_OneSweepPerStepAtTheEnd ==
  lastOp.op \in {"frame", "sim"} =>
    /\ Cardinality(SweepStarts) = 1
    /\ SweepRanLast

\* the frame loop does so
FrameSweepsOnceAtTheEnd ==
  lastOp.op = "frame" =>
    /\ Cardinality(SweepStarts) = 1
    /\ SweepRanLast

\* an iteration of simulateWeeks swept before its vehicles moved and again after
C18_Witness ==
  /\ lastOp.op = "sim"
  /\ Cardinality(SweepStarts) = 2
  /\ Len(trains) > 0

(***************************************************************************)
(* Specification SpecBoard: the boarding decision asked for every line,    *)
(* station and waiting passenger, on networks the player has built and     *)
(* pruned, while simulateWeeks iterations let the passengers wait.         *)
(***************************************************************************)
MaxBoardSteps == 3

\* opts.dt of simulateWeeks (ms)
BoardDts == {5500, 21000}

\* the console's removeLine; no passenger is aboard
Remove(id) == [op |-> "remove", lineId |-> id, where |-> <<>>]

BoardScripts ==
  { <<Spawn(0, 2), Spawn(3, 1), Connect(0, 1)>>,
    <<Spawn(0, 2), Spawn(3, 2), Connect(0, 3), ConnectNew(1, 2)>>,
    <<Spawn(0, 2), Spawn(0, 3), Connect(2, 3), ConnectNew(0, 1), ConnectNew(1, 2), Remove(0)>>,
    <<Spawn(0, 2), Connect(2, 3), ConnectNew(0, 1), ConnectNew(3, 2), ConnectNew(1, 0),
      Remove(0)>> }

BoardSpawnPairs == {<<0, 2>>, <<1, 0>>}

InitBoard ==
  /\ \E script \in BoardScripts : WorldIs(Play(InitWorld, script))
  /\ lastOp = NoOp
  /\ IdleRest

BdStep ==
  \E dt \in BoardDts, pair \in BoardSpawnPairs :
    /\ opCount < MaxBoardSteps
    /\ ~gameOver
    /\ SpawnDrawOk(SimBeforeSpawn(World, dt, Draws(pair[1], pair[2])), pair)
    /\ SetWorld(SimStep(World, dt, Draws(pair[1], pair[2])))
    /\ lastOp' = [op |-> "step"]
    /\ opCount' = opCount + 1
    /\ UNCHANGED <<etaOut, hexIn, hexOut>>

\* shouldBoardLineHere(game, line, stationIdx, passenger) for a waiting passenger
BdAsk ==
  \E k \in 1..Len(lines), st \in StationIds, at \in StationIds :
    \E i \in 1..Len(stations[at].queue) :
      /\ lastOp' = [op |-> "ask", index |-> k, st |-> st,
                    passenger |-> stations[at].queue[i],
                    result |-> ShouldBoardLineHere(World, lines[k], st, stations[at].queue[i])]
      /\ UNCHANGED <<worldVars, opCount, etaOut, hexIn, hexOut>>

NextBoard == BdStep \/ BdAsk

SpecBoard == InitBoard /\ [][NextBoard]_vars

\* the seven rules of the cascade, each on its own
Rule1(line, p) == Includes(line.stations, p.destStation)

Rule2(line, st, p) ==
  \E i \in 1..Len(NeighborsOnLineFrom(line, st)) :
    StepReducesETA(lines, st, NeighborsOnLineFrom(line, st)[i], p.destStation)

\* a neighbour on the line is connected to another line that serves the destination
Rule3(line, st, p) ==
  \E i \in 1..Len(NeighborsOnLineFrom(line, st)), k \in 1..Len(lines) :
    /\ lines[k].id # line.id
    /\ Includes(stations[NeighborsOnLineFrom(line, st)[i]].connections, lines[k].id)
    /\ Includes(lines[k].stations, p.destStation)

Rule4(line, st) ==
  /\ Len(stations[st].queue) >= (IF day <= 2 THEN 4 ELSE 6)
  /\ LineHasHub(line)

\* hubSpokeBoardingWaitMs / hubSpokeBias = 8000 / 1.6
Rule5(line, st, p) ==
  /\ HubAndSpokeMode
  /\ ~IsFinite(EstimateETA(lines, st, p.destStation))
  /\ LineHasHub(line)
  /\ gameTime - p.spawnTime > 5000

Rule6(line, p) ==
  /\ gameTime - p.spawnTime > (IF day <= 2 THEN 20000 ELSE 30000)
  /\ LineHasHub(line)

Rule7(p) == gameTime - p.spawnTime > (IF day <= 2 THEN 45000 ELSE 60000)

SomeRule(line, st, p) ==
  \/ Rule1(line, p) \/ Rule2(line, st, p) \/ Rule3(line, st, p) \/ Rule4(line, st)
  \/ Rule5(line, st, p) \/ Rule6(line, p) \/ Rule7(p)

\* C19: for every line, station and passenger shouldBoardLineHere returns true exactly
\* when at least one of the seven rules of the cascade holds
C19_BoardsIffSomeRule ==
  lastOp.op = "ask" =>
    (lastOp.result <=> SomeRule(lines[lastOp.index], lastOp.st, lastOp.passenger))

\* the station is on the line, the passenger has just arrived and no rule holds, yet
\* the answer is to board
C19_Witness ==
  /\ lastOp.op = "ask"
  /\ Includes(lines[lastOp.index].stations, lastOp.st)
  /\ gameTime = lastOp.passenger.spawnTime
  /\ lastOp.result
  /\ ~SomeRule(lines[lastOp.index], lastOp.st, lastOp.passenger)

\* a passenger created at time 0 has waited past the bootstrap threshold, rule 5 holds
\* and no other rule does, yet the answer is not to board
BoardSkipsRule5AtSpawnTimeZero ==
  /\ lastOp.op = "ask"
  /\ Includes(lines[lastOp.index].stations, lastOp.st)
  /\ lastOp.passenger.spawnTime = 0
  /\ Rule5(lines[lastOp.index], lastOp.st, lastOp.passenger)
  /\ ~lastOp.result

(***************************************************************************)
(* Transfers (checked under SpecTrains)                                    *)
(***************************************************************************)
\* the passengers aboard the trains of a fleet, and those waiting at the stations
AboardOf(ts) == UNION {{ts[ti].passengers[j] : j \in 1..Len(ts[ti].passengers)} : ti \in 1..Len(ts)}

WaitingOf(sts) == UNION {{sts[st].queue[i] : i \in 1..Len(sts[st].queue)} : st \in StationIds}

\* the station's minimum connection time scaled by the day's factor (0.7, 0.9 or 1.0)
\* and the configured multiplier 0.5, rounded
ScaledMct(st, d) ==
  (2 * StationMctMs[st + 1] * (IF d <= 2 THEN 7 ELSE IF d = 3 THEN 9 ELSE 10) + 20) \div 40

\* passenger q of the new state is passenger p put back into a queue by a transfer
PutBack(p, q) == q.id = p.id /\ q.spawnTime = p.spawnTime /\ q.destStation = p.destStation

\* the emergency relief pass of the same tick may move the passenger on to another
\* station, with that station's connection time times the multiplier 0.5
RelocatedMct(st) == (StationMctMs[st + 1] + 1) \div 2

\* C21: a passenger that was aboard and is put back into a station queue has
\* transferCount incremented and transferReadyAt set to now plus the scaled minimum
\* connection time of the station (or of the station the relief pass moved it to); it
\* is not taken aboard again in that arrival pass, and no passenger is aboard a vehicle
\* before simulated time has reached its transferReadyAt
C21_TransferWaitsForConnectionTime ==
  [][ /\ \A p \in AboardOf(trains), st \in StationIds :
           \A i \in 1..Len(stations'[st].queue) :
             PutBack(p, stations'[st].queue[i]) =>
               /\ stations'[st].queue[i].transferCount = p.transferCount + 1
               /\ \/ stations'[st].queue[i].transferReadyAt = gameTime' + ScaledMct(st, day')
                  \/ stations'[st].queue[i].transferReadyAt = gameTime' + RelocatedMct(st)
      /\ \A p \in AboardOf(trains), q \in AboardOf(trains') :
           PutBack(p, q) => q.transferCount = p.transferCount
      /\ \A q \in AboardOf(trains') : q.transferReadyAt <= gameTime' ]_vars

\* a passenger put back by a transfer waits in a queue for its connection time while a
\* train with room dwells at the station
C21_Witness ==
  \E st \in StationIds, ti \in 1..Len(trains) :
    \E i \in 1..Len(stations[st].queue) :
      /\ stations[st].queue[i].transferCount > 0
      /\ stations[st].queue[i].transferReadyAt > gameTime
      /\ trains[ti].lastStationVisited = st
      /\ trains[ti].dwellRemaining > 0
      /\ Len(trains[ti].passengers) < trains[ti].capacity

(***************************************************************************)
(* The autonomous route builder (auto_routing.js): the complexity score,   *)
(* update(), toggleAutoRouting() and the six prioritized actions.          *)
(* Scores that the code keeps as fractions are kept in tenths or in        *)
(* hundredths here.                                                        *)
(***************************************************************************)
\* this.complexityThreshold
ComplexityThreshold == 12

\* this.actionCooldown
ActionCooldown == 12000

\* the waiting time beyond which a passenger counts as routed inefficiently
LongWaitMs == 45000

\* game.stations in array order
StationSeq == [i \in 1..NumStations |-> i - 1]

\* calculateComplexity(): the weighted sum in tenths, then Math.round
CalculateComplexity(g) ==
  IF Len(g.lines) = 0 THEN 0
  ELSE LET overcrowded == Cardinality({st \in StationIds : Len(g.stations[st].queue) >= 4})
           disconnected == Cardinality({st \in StationIds : Len(g.stations[st].connections) = 0})
           longWait == SumSeq([i \in 1..NumStations |->
                         Cardinality({j \in 1..Len(g.stations[i - 1].queue) :
                           g.gameTime - g.stations[i - 1].queue[j].spawnTime > LongWaitMs})])
       IN (Len(g.lines) * 20 + NumStations * 5 + WaitingTotal(g) * 8 + overcrowded * 30
             + disconnected * 20 + longWait * 15 + 5) \div 10

\* shouldEnableAutoRouting() with the score required to exceed the threshold
ShouldEnableAutoRouting_Above(g) == CalculateComplexity(g) > ComplexityThreshold

\* shouldEnableAutoRouting()
ShouldEnableAutoRouting(g) == CalculateComplexity(g) >= ComplexityThreshold

\* toggleAutoRouting()
ToggleAutoRouting(g) ==
  [g EXCEPT !.autoRouting.enabled = ~@, !.autoRouting.userToggled = TRUE]

\* Array.prototype.sort on records ordered by ascending key; equal keys keep their order
RECURSIVE InsertByKey(_, _)
InsertByKey(sorted, e) ==
  IF sorted = <<>> THEN <<e>>
  ELSE IF e.key < Head(sorted).key THEN <<e>> \o sorted
  ELSE <<Head(sorted)>> \o InsertByKey(Tail(sorted), e)

RECURSIVE SortByKey(_)
SortByKey(seq) ==
  IF seq = <<>> THEN <<>>
  ELSE InsertByKey(SortByKey(SubSeq(seq, 1, Len(seq) - 1)), seq[Len(seq)])

RECURSIVE Flatten(_)
Flatten(seqs) == IF seqs = <<>> THEN <<>> ELSE Head(seqs) \o Flatten(Tail(seqs))

\* the first n entries of a sequence: slice(0, n)
Slice(seq, n) == SubSeq(seq, 1, Min2(n, Len(seq)))

\* the stations of `cands` by ascending distance from st, the n nearest
NearestTo(st, cands, n) ==
  LET keyed == [i \in 1..Len(cands) |-> [s |-> cands[i], key |-> Dist(st, cands[i])]]
      sorted == Slice(SortByKey(keyed), n)
  IN [i \in 1..Len(sorted) |-> sorted[i].s]

\* canReachDestination(from, to): the stations the breadth-first search visits; a
\* connection's line is looked up as game.lines[lineId]
RECURSIVE ReachClosure(_, _)
ReachClosure(g, seen) ==
  LET more == UNION {UNION {{g.lines[id + 1].stations[i] : i \in 1..Len(g.lines[id + 1].stations)} :
                              id \in {g.stations[st].connections[c] :
                                        c \in 1..Len(g.stations[st].connections)} \cap
                                     (0..(Len(g.lines) - 1))} : st \in seen}
  IN IF more \subseteq seen THEN seen ELSE ReachClosure(g, seen \cup more)

CanReachDestination(g, from, to) == to \in ReachClosure(g, {from})

\* whether createAutoLine(stationIds) returns true
CreateAutoLineOk(g, sts) == g.linesAvailable > 0 /\ CreateLineReturnsLine(g, sts)

\* the result of a builder action that calls createAutoLine(stationIds) and returns
\* what it returns
TryAutoLine(g, sts) == [g |-> CreateAutoLine(g, sts), ok |-> CreateAutoLineOk(g, sts)]

\* the result of a builder action that gives up
AutoFail(g) == [g |-> g, ok |-> FALSE]

\* score of consider(a, b) in autoBootstrapNetwork, in hundredths
BootScore(a, b) ==
  100 * ((IF IsFinalSt(a) THEN 3 ELSE 0) + (IF IsFinalSt(b) THEN 3 ELSE 0)
         + (IF IsInterchangeSt(a) THEN 1 ELSE 0) + (IF IsInterchangeSt(b) THEN 1 ELSE 0))
    - Dist(a, b)

\* consider(a, b): the pair it pushes, if any
Consider(a, b) == IF a = b THEN <<>> ELSE <<[a |-> a, b |-> b, key |-> 0 - BootScore(a, b)]>>

\* the candidate pairs of autoBootstrapNetwork, best score first
BootPairs ==
  LET finals == SelectSeq(StationSeq, IsFinalSt)
      hubs == SelectSeq(StationSeq, LAMBDA s : IsInterchangeSt(s) /\ ~IsFinalSt(s))
      regulars == SelectSeq(StationSeq, LAMBDA s : ~IsFinalSt(s) /\ ~IsInterchangeSt(s))
      fromFinals ==
        Flatten([i \in 1..Len(finals) |->
          LET cs == NearestTo(finals[i], hubs \o regulars, 5)
          IN Flatten([j \in 1..Len(cs) |-> Consider(finals[i], cs[j])])])
      fromHubs ==
        IF fromFinals = <<>> /\ Len(hubs) >= 2
        THEN Flatten([i \in 1..Len(hubs) |->
               LET ns == NearestTo(hubs[i], SelectSeq(hubs, LAMBDA x : x # hubs[i]), 3)
               IN Flatten([j \in 1..Len(ns) |-> Consider(hubs[i], ns[j])])])
        ELSE fromFinals
      fallback ==
        IF fromHubs = <<>>
        THEN Flatten([i \in 1..NumStations |->
               Flatten([j \in 1..NumStations |->
                 IF i < j THEN Consider(i - 1, j - 1) ELSE <<>>])])
        ELSE fromHubs
  IN SortByKey(fallback)

\* the loop of autoBootstrapNetwork that creates up to 3 starter routes
RECURSIVE BootCreate(_, _, _, _)
BootCreate(g, pairs, created, used) ==
  IF pairs = <<>> \/ g.linesAvailable <= 0 \/ created >= 3 THEN [g |-> g, ok |-> created > 0]
  ELSE LET sts == <<Head(pairs).a, Head(pairs).b>>
       IN IF sts \in used \/ <<sts[2], sts[1]>> \in used \/ ~CreateAutoLineOk(g, sts)
          THEN BootCreate(g, Tail(pairs), created, used)
          ELSE BootCreate(CreateAutoLine(g, sts), Tail(pairs), created + 1, used \cup {sts})

\* autoBootstrapNetwork()
AutoBootstrapNetwork(g) ==
  IF Len(g.lines) > 0 \/ g.linesAvailable <= 0 \/ NumStations < 2 \/ BootPairs = <<>>
  THEN AutoFail(g)
  ELSE BootCreate(g, BootPairs, 0, {})

\* the station of best followed by rest that has the longest queue, the first of them
RECURSIVE MostWaiting(_, _, _)
MostWaiting(g, best, rest) ==
  IF rest = <<>> THEN best
  ELSE MostWaiting(g, IF Len(g.stations[Head(rest)].queue) > Len(g.stations[best].queue)
                      THEN Head(rest) ELSE best, Tail(rest))

\* the score autoConnectIsolatedStations computes in line for a candidate, in hundredths
InlineScore(g, st, relativeTo) ==
  100 * ((IF IsFinalSt(st) THEN 10 ELSE 0) + (IF IsInterchangeSt(st) THEN 5 ELSE 0)
         + Len(g.stations[st].connections)) - Dist(relativeTo, st)

\* Math.round(finalBase * (1 + 0.6 * (bias - 1))) and Math.round(hubBase * (1 + 0.8 * (bias - 1)))
FinalBaseScore == IF HubAndSpokeMode THEN (1000 + 60 * (HubSpokeBias10 - 10) + 50) \div 100 ELSE 10

HubBaseScore == IF HubAndSpokeMode THEN (500 + 40 * (HubSpokeBias10 - 10) + 50) \div 100 ELSE 5

\* scoreStation(station, relativeTo), in hundredths
ScoreStation(g, st, relativeTo) ==
  100 * ((IF IsFinalSt(st) THEN FinalBaseScore ELSE 0)
         + (IF IsInterchangeSt(st) THEN HubBaseScore ELSE 0)
         + Len(g.stations[st].connections)) - Dist(relativeTo, st)

\* the reduce of autoConnectIsolatedStations that chooses the connection target
RECURSIVE BestTarget(_, _, _, _)
BestTarget(g, iso, best, rest) ==
  IF rest = <<>> THEN best
  ELSE BestTarget(g, iso, IF InlineScore(g, Head(rest), iso) > ScoreStation(g, best, iso)
                          THEN Head(rest) ELSE best, Tail(rest))

\* autoConnectIsolatedStations()
AutoConnectIsolatedStations(g) ==
  LET isolated == SelectSeq(StationSeq, LAMBDA s : Len(g.stations[s].connections) = 0)
      connected == SelectSeq(StationSeq, LAMBDA s : Len(g.stations[s].connections) > 0)
      bestIsolated == MostWaiting(g, Head(isolated), Tail(isolated))
  IN IF g.linesAvailable <= 0 \/ isolated = <<>> \/ connected = <<>> THEN AutoFail(g)
     ELSE TryAutoLine(g, <<bestIsolated,
                           BestTarget(g, bestIsolated, Head(connected), Tail(connected))>>)

\* autoConnectRegularsToNearestHub()
AutoConnectRegularsToNearestHub(g) ==
  LET hubs == SelectSeq(StationSeq, IsHubSt)
      candidates == SelectSeq(StationSeq, LAMBDA s : ~IsFinalSt(s) /\ ~IsInterchangeSt(s))
      needsHub == SelectSeq(candidates, LAMBDA s :
                    \/ Len(g.stations[s].connections) = 0
                    \/ ~\E i \in 1..Len(hubs) : CanReachDestination(g, s, hubs[i]))
      byDemand == SortByKey([i \in 1..Len(needsHub) |->
                    [s |-> needsHub[i], key |-> 0 - Len(g.stations[needsHub[i]].queue)]])
  IN IF ~HubAndSpokeMode \/ g.linesAvailable <= 0 \/ hubs = <<>> \/ needsHub = <<>>
     THEN AutoFail(g)
     ELSE TryAutoLine(g, <<byDemand[1].s, NearestTo(byDemand[1].s, hubs, 1)[1]>>)

\* autoConnectHubs()
AutoConnectHubs(g) ==
  LET hubs == SelectSeq(StationSeq, IsHubSt)
      already(a, b) == \E k \in 1..Len(g.lines) :
                         Includes(g.lines[k].stations, a) /\ Includes(g.lines[k].stations, b)
      pairs == Flatten([i \in 1..Len(hubs) |-> Flatten([j \in 1..Len(hubs) |->
                 IF i < j /\ ~already(hubs[i], hubs[j])
                 THEN <<[a |-> hubs[i], b |-> hubs[j], key |-> Dist(hubs[i], hubs[j])]>>
                 ELSE <<>>])])
  IN IF ~HubAndSpokeMode \/ g.linesAvailable <= 0 \/ Len(hubs) < 2 \/ pairs = <<>>
     THEN AutoFail(g)
     ELSE TryAutoLine(g, <<SortByKey(pairs)[1].a, SortByKey(pairs)[1].b>>)

\* the number of passengers waiting at st for dest
DemandFor(g, st, dest) ==
  Cardinality({j \in 1..Len(g.stations[st].queue) : g.stations[st].queue[j].destStation = dest})

\* findBestExtensionTarget(station, analyzePassengerDestinations(station)): the most
\* wanted destination that is not reachable, -1 if there is none
BestExtensionTarget(g, st) ==
  LET wanted == SelectSeq(StationSeq, LAMBDA d : DemandFor(g, st, d) > 0)
      sortedDests == SortByKey([i \in 1..Len(wanted) |->
                       [s |-> wanted[i], key |-> 0 - DemandFor(g, st, wanted[i])]])
      open == {i \in 1..Len(sortedDests) : ~CanReachDestination(g, st, sortedDests[i].s)}
  IN IF open = {} THEN -1 ELSE sortedDests[SetMin(open)].s

\* the loop of autoExtendToReduceCrowding over the crowded stations
RECURSIVE ExtendLoop(_, _)
ExtendLoop(g, crowded) ==
  IF crowded = <<>> THEN AutoFail(g)
  ELSE IF Len(Extendable(g, Head(crowded))) = 0
          \/ BestExtensionTarget(g, Head(crowded)) = -1 \/ g.trainsAvailable <= 0
  THEN ExtendLoop(g, Tail(crowded))
  ELSE [g |-> AutoExtendLine(g, SetMin({k \in 1..Len(g.lines) :
                                  \/ g.lines[k].stations[1] = Head(crowded)
                                  \/ g.lines[k].stations[Len(g.lines[k].stations)] = Head(crowded)}),
                             BestExtensionTarget(g, Head(crowded))),
        ok |-> TRUE]

\* autoExtendToReduceCrowding()
AutoExtendToReduceCrowding(g) ==
  ExtendLoop(g, SelectSeq(StationSeq, LAMBDA s :
                  Len(g.stations[s].queue) >= (IF g.day <= 2 THEN 3 ELSE 4)))

\* the source with the most passengers for the final station, the first of them
RECURSIVE MostDemand(_, _, _, _)
MostDemand(g, final, best, rest) ==
  IF rest = <<>> THEN best
  ELSE MostDemand(g, final, IF DemandFor(g, Head(rest), final) > DemandFor(g, best, final)
                            THEN Head(rest) ELSE best, Tail(rest))

\* the loop of autoConnectToOvercrowdedFinals over the overcrowded final stations
RECURSIVE FinalsLoop(_, _)
FinalsLoop(g, finals) ==
  IF finals = <<>> THEN AutoFail(g)
  ELSE LET sources == SelectSeq(StationSeq, LAMBDA s :
                        s # Head(finals) /\ DemandFor(g, s, Head(finals)) > 0)
           bestSource == MostDemand(g, Head(finals), Head(sources), Tail(sources))
       IN IF sources = <<>> THEN FinalsLoop(g, Tail(finals))
          ELSE IF ~CanReachDestination(g, bestSource, Head(finals))
                  /\ CreateAutoLineOk(g, <<bestSource, Head(finals)>>)
          THEN TryAutoLine(g, <<bestSource, Head(finals)>>)
          ELSE FinalsLoop(g, Tail(finals))

\* autoConnectToOvercrowdedFinals()
AutoConnectToOvercrowdedFinals(g) ==
  IF g.linesAvailable <= 0 THEN AutoFail(g)
  ELSE FinalsLoop(g, SelectSeq(StationSeq, LAMBDA s :
                       IsFinalSt(s) /\ Len(g.stations[s].queue) >= 6))

\* the list `actions` of performAutoActions, in its order
NumAutoActions == 6

AutoAction(g, i) ==
  CASE i = 1 -> AutoBootstrapNetwork(g)
    [] i = 2 -> AutoConnectIsolatedStations(g)
    [] i = 3 -> AutoConnectRegularsToNearestHub(g)
    [] i = 4 -> AutoConnectHubs(g)
    [] i = 5 -> AutoExtendToReduceCrowding(g)
    [] OTHER -> AutoConnectToOvercrowdedFinals(g)

\* the for loop of performAutoActions from action i on; `succeeded` lists the actions
\* that returned true, `brk` tells whether the loop ends at the first of them
RECURSIVE PerformFrom(_, _, _, _)
RECURSIVE PerformNext(_, _, _, _, _)
PerformFrom(g, i, succeeded, brk) ==
  IF i > NumAutoActions THEN [g |-> g, succeeded |-> succeeded]
  ELSE PerformNext(g.gameTime, AutoAction(g, i), i, succeeded, brk)

\* the body of the loop once action i has returned r
PerformNext(now, r, i, succeeded, brk) ==
  IF ~r.ok THEN PerformFrom(r.g, i + 1, succeeded, brk)
  ELSE IF brk THEN [g |-> [r.g EXCEPT !.autoRouting.lastAutoAction = now],
                    succeeded |-> Append(succeeded, i)]
  ELSE PerformFrom([r.g EXCEPT !.autoRouting.lastAutoAction = now], i + 1,
                   Append(succeeded, i), brk)

\* performAutoActions() without the break after the first success
PerformAutoActions_NoBreak(g) == PerformFrom(g, 1, <<>>, FALSE)

\* performAutoActions()
PerformAutoActions(g) == PerformFrom(g, 1, <<>>, TRUE)

\* update() up to the test of the cooldown: the automatic switch, whatever the operator did
AutoSwitch_IgnoresToggle(g) ==
  IF ShouldEnableAutoRouting(g) /\ ~g.autoRouting.enabled
  THEN [g EXCEPT !.autoRouting.enabled = TRUE]
  ELSE IF ~ShouldEnableAutoRouting(g) /\ g.autoRouting.enabled /\ Len(g.lines) < 3
  THEN [g EXCEPT !.autoRouting.enabled = FALSE]
  ELSE g

\* update() up to the test of the cooldown: "only auto-enable/disable if user hasn't
\* manually toggled"
AutoSwitch(g) ==
  IF g.autoRouting.userToggled THEN g
  ELSE IF ShouldEnableAutoRouting(g) /\ ~g.autoRouting.enabled
  THEN [g EXCEPT !.autoRouting.enabled = TRUE]
  ELSE IF ~ShouldEnableAutoRouting(g) /\ g.autoRouting.enabled /\ Len(g.lines) < 3
  THEN [g EXCEPT !.autoRouting.enabled = FALSE]
  ELSE g

\* the test of update() with the cooldown counted as elapsed once it is reached
AutoActionDue_AtCooldown(g) ==
  g.autoRouting.enabled /\ g.gameTime - g.autoRouting.lastAutoAction >= ActionCooldown

\* this.enabled && currentTime - this.lastAutoAction > this.actionCooldown
AutoActionDue(g) ==
  g.autoRouting.enabled /\ g.gameTime - g.autoRouting.lastAutoAction > ActionCooldown

\* update() after the automatic switch: the game it leaves and the actions that succeeded
AutoActFrom(g) ==
  IF AutoActionDue(g) THEN PerformAutoActions(g) ELSE [g |-> g, succeeded |-> <<>>]

\* update(); updateSuggestions() changes nothing of the game
AutoUpdate(g) == AutoActFrom(AutoSwitch(g)).g

(***************************************************************************)
(* Specification SpecAuto: the frame loop with the route builder's         *)
(* update() in its place between the allocator and the sweep, the operator *)
(* toggling the builder and the player building and removing lines.  The   *)
(* game has run idle, without lines, until the builder's first cooldown is *)
(* about to end.                                                           *)
(***************************************************************************)
\* what update() is given in a frame: the game after clock, spawner, trains, allocator
SeenByUpdate(g, dt, in) == LoopAllocate(UpdateTrains(LoopSpawn(LoopBeforeSpawn(g, dt), in), dt))

\* what update() is given and what it can do: `seen` is the game when update() is
\* called, `switched` the game after the automatic switch
UpdateLog(seen, switched, succeeded) ==
  [op |-> "frame", before |-> seen.autoRouting, time |-> seen.gameTime,
   complexity |-> CalculateComplexity(seen), nlines |-> Len(seen.lines),
   network |-> [k \in 1..Len(seen.lines) |-> seen.lines[k].stations],
   due |-> AutoActionDue(switched),
   can |-> {i \in 1..NumAutoActions : AutoAction(switched, i).ok},
   succeeded |-> succeeded]

\* the sweep that ends the frame, after an update() that left r
FrameEnd(seen, r, dt, in) ==
  [g |-> UpdatePassengersAndCheckOvercrowding(r.g, dt, in.draws),
   log |-> UpdateLog(seen, AutoSwitch(seen), r.succeeded)]

\* the guarded block of loop(ts) with the route builder's update(), and what update()
\* was given
LoopBodyLogged(g, dt, in) ==
  CHOOSE f \in {FrameEnd(seen, AutoActFrom(AutoSwitch(seen)), dt, in) :
                  seen \in {SeenByUpdate(g, dt, in)}} : TRUE

\* the guarded block of loop(ts) with the route builder's update()
LoopBodyAuto(g, dt, in) == LoopBodyLogged(g, dt, in).g

\* the block of loop(ts) guarded by !game.paused && !game.gameOver
LoopTickAuto(g, dt, in) == IF g.paused \/ g.gameOver THEN g ELSE LoopBodyAuto(g, dt, in)

\* n frames one after the other, the spawner filling the lowest-numbered station
RECURSIVE IdleFrames(_, _)
IdleFrames(g, n) ==
  IF n = 0 THEN g
  ELSE IF n = 1 THEN LoopTickAuto(g, LoopDt, FrameDraws(LoopBeforeSpawn(g, LoopDt)))
  ELSE CHOOSE r \in {IdleFrames(h, n - n \div 2) : h \in {IdleFrames(g, n \div 2)}} : TRUE

\* frames run before the scenario starts
AutoIdleFrames == 118

\* the scenario ends at this game time
MaxAutoMs == 12200

\* operations of the operator and of the player
MaxAutoOps == 3

MaxAutoLines == 3

\* the drags of the player
AutoPlayerPairs == {<<0, 1>>, <<1, 2>>, <<3, 2>>}

\* origin and destination of the passengers the console API adds
AutoSpawnPairs == {<<1, 2>>}

MaxAutoCrowd == 6

\* the stations Math.random() draws for the passengers of a removed line's vehicles
AutoStrandAt == {3}

\* frames run before the player builds in the second starting game
AutoBuildFrames == 108

Frames(n) == [op |-> "frames", n |-> n]

\* a sequence of frames and calls made one after the other
RECURSIVE AutoPlay(_, _)
AutoPlay(g, script) ==
  IF script = <<>> THEN g
  ELSE AutoPlay(IF Head(script).op = "frames" THEN IdleFrames(g, Head(script).n)
                ELSE PlayOne(g, Head(script)), Tail(script))

\* the starting games.  In the second the player builds a line, the next frame's
\* update() switches the builder on, the player builds two more lines and the frames
\* go on
AutoScripts ==
  { <<Frames(AutoIdleFrames)>>,
    <<Frames(AutoBuildFrames), Connect(1, 2), Frames(1), ConnectNew(1, 0), Connect(3, 2),
      Frames(AutoIdleFrames - AutoBuildFrames - 1)>> }

InitAuto ==
  /\ \E script \in AutoScripts : WorldIs(AutoPlay(InitWorld, script))
  /\ lastOp = NoOp
  /\ IdleRest

AutoRest == opCount' = opCount + 1 /\ UNCHANGED <<etaOut, hexIn, hexOut>>

\* one requestAnimationFrame callback
AuFrame ==
  /\ gameTime < MaxAutoMs
  /\ ~paused /\ ~gameOver
  /\ \E f \in {LoopBodyLogged(World, LoopDt, FrameDraws(LoopBeforeSpawn(World, LoopDt)))} :
       SetWorld(f.g) /\ lastOp' = f.log
  /\ UNCHANGED <<opCount, etaOut, hexIn, hexOut>>

\* the operator clicks the auto-routing button or presses A
AuToggle ==
  /\ opCount < MaxAutoOps
  /\ SetWorld(ToggleAutoRouting(World))
  /\ lastOp' = [op |-> "toggle"]
  /\ AutoRest

\* the player drags from one station to another
AuConnect ==
  \E pair \in AutoPlayerPairs :
    /\ opCount < MaxAutoOps
    /\ Len(lines) < MaxAutoLines
    /\ SetWorld(PointerUpConnect(World, pair[1], pair[2], FALSE))
    /\ lastOp' = [op |-> "connect"]
    /\ AutoRest

\* the player removes a line
AuRemove ==
  \E k \in 1..Len(lines), st \in AutoStrandAt :
    /\ opCount < MaxAutoOps
    /\ SetWorld(RemoveLine(World, lines[k].id, [i \in 1..totalPassengers |-> st]))
    /\ lastOp' = [op |-> "remove"]
    /\ AutoRest

\* a passenger added through the console API
AuSpawn ==
  \E pair \in AutoSpawnPairs :
    /\ opCount < MaxAutoOps
    /\ totalPassengers < MaxAutoCrowd
    /\ SetWorld(SpawnPassenger(World, pair[1], pair[2]))
    /\ lastOp' = [op |-> "spawn"]
    /\ AutoRest

NextAuto == AuFrame \/ AuToggle \/ AuConnect \/ AuRemove \/ AuSpawn

SpecAuto == InitAuto /\ [][NextAuto]_vars

\* C22: once the operator has called toggleAutoRouting, update() never changes the
\* builder's enabled flag again, whatever the complexity score and the line count.
C22_ToggleFreezesEnabled ==
  (lastOp.op = "frame" /\ lastOp.before.userToggled) =>
    /\ autoRouting.enabled = lastOp.before.enabled
    /\ autoRouting.userToggled

\* update() ran on an overridden builder in both situations in which it would have
\* switched: off with the score at the threshold, on with the score below it and fewer
\* than 3 lines
C22_Witness ==
  /\ lastOp.op = "frame"
  /\ lastOp.before.userToggled
  /\ ~lastOp.before.enabled
  /\ lastOp.complexity >= ComplexityThreshold
  /\ ~autoRouting.enabled

C22_WitnessOn ==
  /\ lastOp.op = "frame"
  /\ lastOp.before.userToggled
  /\ lastOp.before.enabled
  /\ lastOp.complexity < ComplexityThreshold
  /\ lastOp.nlines < 3
  /\ autoRouting.enabled

\* update() ran on a builder the operator has not overridden
AutoUpdateRan == lastOp.op = "frame" /\ ~lastOp.before.userToggled

C23_WitnessOff ==
  /\ AutoUpdateRan
  /\ lastOp.before.enabled
  /\ ~autoRouting.enabled

\* update() left the builder on with 3 lines although the score was below the threshold
C23_WitnessStays ==
  /\ AutoUpdateRan
  /\ lastOp.before.enabled
  /\ lastOp.nlines >= 3
  /\ lastOp.complexity < ComplexityThreshold
  /\ autoRouting.enabled

\* the station sequences of the lines, in game.lines order
NetworkNow == [k \in 1..Len(lines) |-> lines[k].stations]

\* C24: update() performs an autonomous action only while the builder is enabled and
\* only when more than actionCooldown of simulated time has elapsed since its last
\* successful action; in one update() at most one of the prioritized actions succeeds,
\* namely the first in priority order that can, and a failed attempt does not restart
\* the cooldown.
C24_OneActionPerCooldown ==
  lastOp.op = "frame" =>
    /\ lastOp.succeeded # <<>> =>
         /\ autoRouting.enabled
         /\ lastOp.time - lastOp.before.lastAutoAction > ActionCooldown
         /\ autoRouting.lastAutoAction = lastOp.time
    /\ Len(lastOp.succeeded) <= 1
    /\ (autoRouting.enabled /\ lastOp.time - lastOp.before.lastAutoAction > ActionCooldown
          /\ lastOp.can # {})
         => lastOp.succeeded = <<SetMin(lastOp.can)>>
    /\ lastOp.succeeded = <<>> =>
         /\ autoRouting.lastAutoAction = lastOp.before.lastAutoAction
         /\ NetworkNow = lastOp.network

\* update() performed an action although a later action of the list could succeed too
C24_Witness ==
  /\ lastOp.op = "frame"
  /\ Len(lastOp.succeeded) = 1
  /\ Cardinality(lastOp.can) >= 2
  /\ NetworkNow # lastOp.network
  /\ autoRouting.lastAutoAction = lastOp.time

\* the cooldown had elapsed and every action failed: the cooldown was not restarted
C24_WitnessFailed ==
  /\ lastOp.op = "frame"
  /\ lastOp.due
  /\ lastOp.can = {}
  /\ autoRouting.lastAutoAction = 0
  /\ lastOp.time - ActionCooldown >= 2 * LoopDt

\* exactly actionCooldown had elapsed: an enabled builder that could act did not
C24_WitnessAtCooldown ==
  /\ lastOp.op = "frame"
  /\ autoRouting.enabled
  /\ lastOp.time - lastOp.before.lastAutoAction = ActionCooldown
  /\ lastOp.can # {}
  /\ lastOp.succeeded = <<>>

(***************************************************************************)
(* Specification SpecWay: the network is built and taken apart.  The       *)
(* player drags between stations (with and without shift), drops a station *)
(* on a selected line and removes lines; the route builder creates a line  *)
(* and extends a line from a crowded endpoint; passengers arrive; a line's *)
(* waypoints are rebuilt.  No frame runs.                                  *)
(***************************************************************************)
\* operations that change or rebuild the network
MaxWayOps == 3

MaxWayLines == 3

MaxWayLineLen == 3

MaxWayCrowd == 3

WayPlayerPairs == {<<0, 1>>, <<1, 2>>, <<2, 3>>}

WayAutoPairs == {<<2, 1>>}

WaySpawnPairs == {<<3, 2>>}

\* the starting games: no line, and three lines drawn by the player
WayScripts == {<<>>, <<Connect(0, 1), ConnectNew(1, 2), ConnectNew(2, 3)>>}

InitWay ==
  /\ \E script \in WayScripts : WorldIs(Play(InitWorld, script))
  /\ lastOp = NoOp
  /\ IdleRest

WayRest == opCount' = opCount + 1 /\ UNCHANGED <<etaOut, hexIn, hexOut>>

\* pointerup after a drag between two stations
WyConnect ==
  \E pair \in WayPlayerPairs, shift \in BOOLEAN :
    LET ext == Len(Extendable(World, pair[1])) > 0 /\ ~shift
    IN /\ opCount < MaxWayOps
       /\ IF ext THEN Len(Extendable(World, pair[1])[1].stations) < MaxWayLineLen
                 ELSE Len(lines) < MaxWayLines
       /\ SetWorld(PointerUpConnect(World, pair[1], pair[2], shift))
       /\ lastOp' = [op |-> IF ext THEN "extend" ELSE "create", before |-> lines]
       /\ WayRest

\* pointerup on station st with the line at index k selected on its first segment:
\* canInsertStationAt, then addStationToLine(game, selectedLine.id, st, 1)
WyInsert ==
  \E k \in 1..Len(lines), st \in StationIds :
    /\ opCount < MaxWayOps
    /\ \A j \in 1..Len(lines) : Len(lines[j].stations) < MaxWayLineLen
    /\ ~Includes(lines[k].stations, st)
    /\ AddStationToLineOk(World, k - 1, st, 1)
    /\ SetWorld(AddStationToLine(World, lines[k].id, st, 1))
    /\ lastOp' = [op |-> "insert", before |-> lines]
    /\ WayRest

\* the player removes a line
WyRemove ==
  \E k \in 1..Len(lines) :
    /\ opCount < MaxWayOps
    /\ SetWorld(RemoveLine(World, lines[k].id, <<>>))
    /\ lastOp' = [op |-> "remove", before |-> lines]
    /\ WayRest

\* the route builder creates a line
WyAutoLine ==
  \E pair \in WayAutoPairs :
    /\ opCount < MaxWayOps
    /\ Len(lines) < MaxWayLines
    /\ SetWorld(CreateAutoLine(World, pair))
    /\ lastOp' = [op |-> "autoLine", before |-> lines]
    /\ WayRest

\* a passenger added through the console API
WySpawn ==
  \E pair \in WaySpawnPairs :
    /\ totalPassengers < MaxWayCrowd
    /\ SetWorld(SpawnPassenger(World, pair[1], pair[2]))
    /\ lastOp' = [op |-> "spawn", before |-> lines]
    /\ UNCHANGED <<opCount, etaOut, hexIn, hexOut>>

\* the route builder's autoExtendToReduceCrowding()
WyAutoExtend ==
  /\ opCount < MaxWayOps
  /\ \A j \in 1..Len(lines) : Len(lines[j].stations) < MaxWayLineLen
  /\ \E r \in {AutoExtendToReduceCrowding(World)} :
       /\ r.ok
       /\ SetWorld(r.g)
  /\ lastOp' = [op |-> "autoExtend", before |-> lines]
  /\ WayRest

\* rebuildWaypointsForLine(game, line) for a live line
WyRebuild ==
  \E k \in 1..Len(lines) :
    /\ opCount < MaxWayOps
    /\ SetWorld(RebuildWaypointsForLine(World, k))
    /\ lastOp' = [op |-> "rebuild", index |-> k, before |-> lines,
                  again |-> lastOp.op = "rebuild" /\ lastOp.index = k]
    /\ WayRest

NextWay ==
  WyConnect \/ WyInsert \/ WyRemove \/ WyAutoLine \/ WySpawn \/ WyAutoExtend \/ WyRebuild

SpecWay == InitWay /\ [][NextWay]_vars

\* C25: rebuilding the waypoints of a line twice in a row, with no line created,
\* extended or removed in between, leaves the waypoints the first rebuild produced
C25_RebuildTwiceSame ==
  (lastOp.op = "rebuild" /\ lastOp.again) =>
    lines[lastOp.index].waypoints = lastOp.before[lastOp.index].waypoints

\* a second rebuild in a row of a line that has a bundled corridor and a terminal bubble
C25_Witness ==
  /\ lastOp.op = "rebuild"
  /\ lastOp.again
  /\ \E i \in 1..Len(lines[lastOp.index].waypoints) :
       /\ lines[lastOp.index].waypoints[i].off # 0
       /\ lines[lastOp.index].waypoints[i].endBubble

\* a first rebuild that replaced waypoints that were there
C25_WitnessChanged ==
  /\ lastOp.op = "rebuild"
  /\ ~lastOp.again
  /\ lastOp.before[lastOp.index].waypoints # NullWaypoints
  /\ lines[lastOp.index].waypoints # lastOp.before[lastOp.index].waypoints

ConsecutiveRepeat(sts) == \E i \in 1..(Len(sts) - 1) : sts[i] = sts[i + 1]

\* C26: after any sequence of line creations, station insertions, endpoint extensions
\* (by the player or the route builder) and line removals, every live line has at
\* least two stations and no two consecutive entries of its station list are equal
C26_LinesWellFormed ==
  \A k \in 1..Len(lines) :
    Len(lines[k].stations) >= 2 /\ ~ConsecutiveRepeat(lines[k].stations)

\* the ids of the live lines are their indices in game.lines
IdsAreIndices(ls) == \A k \in 1..Len(ls) : ls[k].id = k - 1

\* a station dropped on a selected line went into another line, next to itself
C26_Witness ==
  /\ lastOp.op = "insert"
  /\ ~IdsAreIndices(lastOp.before)
  /\ \E k \in 1..Len(lines) :
       ConsecutiveRepeat(lines[k].stations) /\ ~ConsecutiveRepeat(lastOp.before[k].stations)

\* the route builder extended a line by the station the line already ended at
C26_WitnessBuilder ==
  /\ lastOp.op = "autoExtend"
  /\ ~IdsAreIndices(lastOp.before)
  /\ \E k \in 1..Len(lines) :
       ConsecutiveRepeat(lines[k].stations) /\ ~ConsecutiveRepeat(lastOp.before[k].stations)

\* while ids equal indices no operation of the scenario breaks a well-formed line
C26_HoldsWhileIdsAreIndices ==
  (lastOp.op # "init" /\ IdsAreIndices(lastOp.before)
     /\ \A k \in 1..Len(lastOp.before) : ~ConsecutiveRepeat(lastOp.before[k].stations))
    => C26_LinesWellFormed

\* the waypoints a rebuild of the line at index k would assign now
FreshWaypoints(k) == RebuiltWaypoints(lines, lines[k])

\* every line of ls has the waypoints a rebuild would assign to it
AllFresh(ls) == \A k \in 1..Len(ls) : ls[k].waypoints = RebuiltWaypoints(ls, ls[k])

\* the operations that create, change or remove a line
NetworkOps == {"create", "autoLine", "insert", "extend", "autoExtend", "remove"}

\* C27: whenever a line's station sequence changes its waypoints are recomputed by
\* the full rebuild (router, terminal bubbles, bundling), and so are the waypoints of
\* the lines whose bundling depends on a created, changed or removed line: after an
\* operation on a network without null or stale waypoints no live line has null or
\* stale waypoints
C27_WaypointsFresh ==
  (lastOp.op \in NetworkOps /\ AllFresh(lastOp.before)) => AllFresh(lines)

\* the route builder has created a line and left its waypoints null
C27_Witness ==
  /\ lastOp.op = "autoLine"
  /\ AllFresh(lastOp.before)
  /\ Len(lines) = Len(lastOp.before) + 1
  /\ lines[Len(lines)].waypoints = NullWaypoints
  /\ Len(lines[Len(lines)].stations) >= 2

\* the player has drawn a line to a hub and its waypoints have no terminal bubble
C27_WitnessRouterOnly ==
  /\ lastOp.op = "create"
  /\ AllFresh(lastOp.before)
  /\ Len(lines) = Len(lastOp.before) + 1
  /\ lines[Len(lines)].waypoints # NullWaypoints
  /\ FreshWaypoints(Len(lines))[1].endBubble
  /\ ~lines[Len(lines)].waypoints[1].endBubble

\* a line was removed and a line that had been bundled against it keeps its shift
C27_WitnessStaleNeighbour ==
  /\ lastOp.op = "remove"
  /\ \E k \in 1..Len(lines) :
       /\ Len(lines[k].waypoints) = Len(FreshWaypoints(k))
       /\ \E i \in 1..Len(lines[k].waypoints) :
            lines[k].waypoints[i].off # 0 /\ FreshWaypoints(k)[i].off = 0

\* an insertion or an extension leaves the changed line with the waypoints of a rebuild
C27_ChangedLineRebuilt ==
  (lastOp.op \in {"insert", "extend", "autoExtend"}) =>
    \A k \in 1..Len(lines) :
      lines[k].stations # lastOp.before[k].stations => lines[k].waypoints = FreshWaypoints(k)

(***************************************************************************)
(* Specification SpecMove: updateTrains on lines the player has drawn, at  *)
(* several tick lengths, while the player extends a line at either end.    *)
(* Passengers wait at the stations.  The log keeps the trains as they were *)
(* before the call and, for every train, the time ticked since its last    *)
(* arrival and the dwell that arrival set.                                 *)
(***************************************************************************)
MaxMoveSteps == 6

MaxMoveExtends == 1

MaxMoveLineLen == 3

\* tick lengths (ms); rawDt = Math.min(50, ts - last) has no lower bound
MoveDts == {0, 400, 4000}

\* the drags that extend a line
MovePairs == {<<1, 0>>, <<2, 3>>}

MoveScripts ==
  { <<Spawn(1, 2), Spawn(2, 1), Connect(1, 2)>>,
    <<Spawn(0, 2), Spawn(1, 0), Connect(0, 1), Connect(1, 2)>> }

InitMove ==
  /\ \E script \in MoveScripts : WorldIs(Play(InitWorld, script))
  /\ lastOp = [op |-> "init", dt |-> 0, extends |-> 0, before |-> <<>>,
               dwelt |-> <<>>, dwellSet |-> <<>>]
  /\ IdleRest

\* the value of a per-train log, 0 for a train the log does not know yet
LogAt(log, ti) == IF ti <= Len(log) THEN log[ti] ELSE 0

\* arriveAtStationIdx has run for the train in the call of updateTrains that took it
\* from b to a: it is the only place that starts the cooldown
ArrivedIn(b, a, dt) ==
  a.stationCooldown = 600 * TimerDen /\ ~(b.stationCooldown > 0 /\ dt = 0)

MoveLog(g0, g1, dt, last) ==
  [op |-> "tick", dt |-> dt, extends |-> last.extends, before |-> g0.trains,
   dwelt |-> [ti \in 1..Len(g1.trains) |->
                IF ArrivedIn(g0.trains[ti], g1.trains[ti], dt) THEN 0
                ELSE LogAt(last.dwelt, ti) + dt],
   dwellSet |-> [ti \in 1..Len(g1.trains) |->
                   IF ArrivedIn(g0.trains[ti], g1.trains[ti], dt)
                   THEN g1.trains[ti].dwellRemaining
                   ELSE LogAt(last.dwellSet, ti)]]

\* updateTrains(game, dt) after the clock has advanced
MvTick ==
  \E dt \in MoveDts :
    /\ opCount < MaxMoveSteps
    /\ \E g1 \in {UpdateTrains([World EXCEPT !.gameTime = @ + dt], dt)} :
         /\ SetWorld(g1)
         /\ lastOp' = MoveLog(World, g1, dt, lastOp)
    /\ opCount' = opCount + 1
    /\ UNCHANGED <<etaOut, hexIn, hexOut>>

\* pointerup after a drag from an endpoint of a line: the line is extended
MvExtend ==
  \E pair \in MovePairs :
    /\ lastOp.extends < MaxMoveExtends
    /\ Len(Extendable(World, pair[1])) > 0
    /\ Len(Extendable(World, pair[1])[1].stations) < MaxMoveLineLen
    /\ SetWorld(PointerUpConnect(World, pair[1], pair[2], FALSE))
    /\ lastOp' = [lastOp EXCEPT !.op = "extend", !.extends = @ + 1, !.before = trains]
    /\ UNCHANGED <<opCount, etaOut, hexIn, hexOut>>

NextMove == MvTick \/ MvExtend

SpecMove == InitMove /\ [][NextMove]_vars

\* the train as the move of the tick finds it: not dwelling, the turn-back guard applied
AtMove(b, line) == TurnGuard(b, line)

\* the step of the tick: speed * dt / safeLen of the line
StepOf(b, line, dt) ==
  IF Max2(100, line.totalLength) = LineTotal(line) THEN b.speed * dt
  ELSE (b.speed * dt * LineTotal(line)) \div Max2(100, line.totalLength)

\* the stations (as indices of line.stations) whose position lies beyond the train's
\* position, by more than the tolerance, and not beyond the proposed position
PassedBy(b, line, dt) ==
  LET t == AtMove(b, line)
      proposed == t.position + StepOf(b, line, dt) * t.direction
  IN {i \in 1..Len(line.stations) :
        IF t.direction > 0
        THEN NormAt(line, i) > t.position + PosEps(line, 100) /\ NormAt(line, i) <= proposed
        ELSE NormAt(line, i) < t.position - PosEps(line, 100) /\ NormAt(line, i) >= proposed}

FirstPassed(b, line, dt) ==
  IF AtMove(b, line).direction > 0 THEN SetMin(PassedBy(b, line, dt))
  ELSE SetMax(PassedBy(b, line, dt))

\* the train at index ti was running when the last tick began, on a line that is not a loop
RanInTick(ti) ==
  /\ lastOp.op = "tick"
  /\ ti <= Len(lastOp.before)
  /\ lastOp.before[ti].dwellRemaining <= 0
  /\ HasLineAt(World, trains[ti].lineId)
  /\ ~LineAt(World, trains[ti].lineId).isLoop

\* C28: in a tick where the move of a running train passes the position of a station
\* of its line, the train is put on the first such station and the arrival fires
\* there, whatever the cooldown left and whichever station it visited last
C28_NoStationPassedWithoutArrival ==
  \A ti \in 1..Len(trains) :
    (RanInTick(ti)
       /\ PassedBy(lastOp.before[ti], LineAt(World, trains[ti].lineId), lastOp.dt) # {}) =>
      LET line == LineAt(World, trains[ti].lineId)
          i == FirstPassed(lastOp.before[ti], line, lastOp.dt)
      IN /\ ArrivedIn(lastOp.before[ti], trains[ti], lastOp.dt)
         /\ trains[ti].position = NormAt(line, i)
         /\ trains[ti].lastStationVisited = line.stations[i]

\* a running train whose cooldown had run out went past the station it had visited
\* last, which an extension of the line had put ahead of it, and arrived further on
C28_Witness ==
  \E ti \in 1..Len(trains) :
    /\ RanInTick(ti)
    /\ lastOp.extends > 0
    /\ lastOp.before[ti].stationCooldown <= 0
    /\ PassedBy(lastOp.before[ti], LineAt(World, trains[ti].lineId), lastOp.dt) # {}
    /\ LET line == LineAt(World, trains[ti].lineId)
           i == FirstPassed(lastOp.before[ti], line, lastOp.dt)
       IN /\ line.stations[i] = lastOp.before[ti].lastStationVisited
          /\ ArrivedIn(lastOp.before[ti], trains[ti], lastOp.dt)
          /\ trains[ti].position > NormAt(line, i)

\* the same for the stations the train is free to arrive at: the station is not the
\* one visited last and no cooldown is left
C28_HoldsForFreeStations ==
  \A ti \in 1..Len(trains) :
    (RanInTick(ti)
       /\ PassedBy(lastOp.before[ti], LineAt(World, trains[ti].lineId), lastOp.dt) # {}
       /\ lastOp.before[ti].stationCooldown - lastOp.dt * TimerDen <= 0
       /\ LineAt(World, trains[ti].lineId).stations[
            FirstPassed(lastOp.before[ti], LineAt(World, trains[ti].lineId), lastOp.dt)]
            # lastOp.before[ti].lastStationVisited) =>
      LET line == LineAt(World, trains[ti].lineId)
          i == FirstPassed(lastOp.before[ti], line, lastOp.dt)
      IN /\ ArrivedIn(lastOp.before[ti], trains[ti], lastOp.dt)
         /\ trains[ti].position = NormAt(line, i)
         /\ trains[ti].lastStationVisited = line.stations[i]

\* the train at index ti has arrived in the last tick at the first (last) station of
\* its line, which is not a loop
ArrivedAtFirst(ti) ==
  /\ RanInTick(ti)
  /\ ArrivedIn(lastOp.before[ti], trains[ti], lastOp.dt)
  /\ trains[ti].position <= PosEps(LineAt(World, trains[ti].lineId), 100)

ArrivedAtLast(ti) ==
  /\ RanInTick(ti)
  /\ ArrivedIn(lastOp.before[ti], trains[ti], lastOp.dt)
  /\ trains[ti].position >= LineOne(LineAt(World, trains[ti].lineId))
                              - PosEps(LineAt(World, trains[ti].lineId), 100)

\* C29: right after an arrival at a terminal of a line that is not a loop the train's
\* direction points into the line: +1 at the first station, -1 at the last
C29_DirectionIntoLine ==
  \A ti \in 1..Len(trains) :
    /\ ArrivedAtFirst(ti) => trains[ti].direction = 1
    /\ ArrivedAtLast(ti) => trains[ti].direction = -1

\* a train that had never arrived anywhere has arrived at the first station of its line
\* in a tick of length 0 and points out of the line
C29_Witness ==
  \E ti \in 1..Len(trains) :
    /\ ArrivedAtFirst(ti)
    /\ lastOp.dt = 0
    /\ lastOp.before[ti].lastStationVisited = -1
    /\ lastOp.before[ti].position = 0
    /\ lastOp.before[ti].direction = 1
    /\ trains[ti].direction = -1

\* the same for the ticks whose step is larger than the tolerance
C29_HoldsForStepsAboveTolerance ==
  \A ti \in 1..Len(trains) :
    (RanInTick(ti)
       /\ StepOf(lastOp.before[ti], LineAt(World, trains[ti].lineId), lastOp.dt)
            > PosEps(LineAt(World, trains[ti].lineId), 100)) =>
      /\ ArrivedAtFirst(ti) => trains[ti].direction = 1
      /\ ArrivedAtLast(ti) => trains[ti].direction = -1

\* a train turned at each end of its line
C29_WitnessTurns ==
  \E ti \in 1..Len(trains) :
    /\ ArrivedAtFirst(ti)
    /\ lastOp.dt > 0
    /\ lastOp.before[ti].direction = -1
    /\ trains[ti].direction = 1

\* the train at index ti was dwelling when the last tick began
DweltInTick(ti) ==
  /\ lastOp.op = "tick"
  /\ ti <= Len(lastOp.before)
  /\ lastOp.before[ti].dwellRemaining > 0
  /\ HasLineAt(World, trains[ti].lineId)

\* the position the end of a dwell leaves a train at: off the boundary of a terminal
NudgedOff(b, line) ==
  IF line.isLoop THEN b.position
  ELSE IF b.position >= LineOne(line) - PosEps(line, 1000)
       THEN LineOne(line) - 2 * PosEps(line, 1000)
  ELSE IF b.position <= PosEps(line, 1000) THEN 2 * PosEps(line, 1000)
  ELSE b.position

\* C30: a train that is dwelling when a tick begins fires no arrival in that tick,
\* exchanges no passengers, keeps its direction and does not advance (only the nudge
\* off a terminal at the end of the dwell moves it); its dwell counter goes down by the
\* tick and stops at 0, and once the ticks since the arrival add up to the dwell time
\* the counter is 0 and the train is running again
C30_DwellingStaysPut ==
  \A ti \in 1..Len(trains) :
    /\ DweltInTick(ti) =>
         LET b == lastOp.before[ti]
             a == trains[ti]
         IN /\ ~ArrivedIn(b, a, lastOp.dt)
            /\ a.passengers = b.passengers
            /\ a.direction = b.direction
            /\ a.lastStationVisited = b.lastStationVisited
            /\ a.dwellRemaining = Max2(0, b.dwellRemaining - lastOp.dt * TimerDen)
            /\ a.position = IF a.dwellRemaining = 0
                             THEN NudgedOff(b, LineAt(World, a.lineId))
                             ELSE b.position
    /\ (lastOp.op = "tick" /\ LogAt(lastOp.dwelt, ti) * TimerDen >= LogAt(lastOp.dwellSet, ti)) =>
         trains[ti].dwellRemaining = 0

\* a dwell at a terminal ended in the last tick with time to spare: the train carries
\* its passengers on, nudged off the boundary, and its counter stands at 0
C30_Witness ==
  \E ti \in 1..Len(trains) :
    /\ DweltInTick(ti)
    /\ lastOp.before[ti].dwellRemaining < lastOp.dt * TimerDen
    /\ trains[ti].dwellRemaining = 0
    /\ trains[ti].position # lastOp.before[ti].position
    /\ Len(trains[ti].passengers) > 0

\* a dwell that the last tick did not end: the counter went down, the train stayed
C30_WitnessStillDwelling ==
  \E ti \in 1..Len(trains) :
    /\ DweltInTick(ti)
    /\ lastOp.dt > 0
    /\ trains[ti].dwellRemaining > 0
    /\ trains[ti].position = lastOp.before[ti].position

(***************************************************************************)
(* Reachability: canReachDestination against computeETAs (SpecEta)         *)
(***************************************************************************)
\* canReachDestination and computeETAs agree on the pair
ReachAgrees(from, to) ==
  CanReachDestination(World, from, to) <=> IsFinite(ComputeETAs(lines, to)[from])

\* C31: canReachDestination(from, to) terminates on every connections graph and is
\* true exactly for the pairs for which computeETAs reports a finite ETA, after any
\* sequence of line creations and removals
C31_ReachableIffFiniteETA ==
  \A from \in StationIds, to \in StationIds : ReachAgrees(from, to)

\* after a removal a station still on a line cannot reach its neighbour on that line:
\* the search looks the line up by its id used as an index
C31_Witness ==
  /\ lastOp.op = "remove"
  /\ \E from \in StationIds, to \in StationIds :
       /\ from # to
       /\ \E k \in 1..Len(lines) : Includes(lines[k].stations, from) /\ Includes(lines[k].stations, to)
       /\ IsFinite(ComputeETAs(lines, to)[from])
       /\ ~CanReachDestination(World, from, to)

\* the search is right on a cyclic network of two lines
C31_WitnessCycle ==
  /\ Len(lines) = 2
  /\ IdsAreIndices(lines)
  /\ \E a \in StationIds, b \in StationIds :
       /\ a # b
       /\ \A k \in 1..2 : Includes(lines[k].stations, a) /\ Includes(lines[k].stations, b)
       /\ \E c \in StationIds : c \notin {a, b} /\ CanReachDestination(World, a, c)
       /\ \E d \in StationIds : ~CanReachDestination(World, a, d)

\* the two agree as long as every line sits at the index its id names
C31_HoldsWhileIdsAreIndices ==
  IdsAreIndices(lines) => \A from \in StationIds, to \in StationIds : ReachAgrees(from, to)

(***************************************************************************)
(* The lattice path of hexAStar (SpecHex)                                  *)
(***************************************************************************)
\* the two points are lattice vertices one unit cube direction apart
AdjacentVertices(p1, p2) ==
  \E d \in 1..6 :
    /\ PixelToCube(p2).q = PixelToCube(p1).q + HexDirs[d].q
    /\ PixelToCube(p2).r = PixelToCube(p1).r + HexDirs[d].r
    /\ PixelToCube(p2).s = PixelToCube(p1).s + HexDirs[d].s
    /\ CubeToPixel(PixelToCube(p1)) = p1
    /\ CubeToPixel(PixelToCube(p2)) = p2

\* the endpoints of the last call snap to different lattice vertices
DistinctVertices == hexIn # <<>> /\ PixelToCube(hexIn[1]) # PixelToCube(hexIn[2])

\* C32: for endpoints that snap to distinct lattice vertices hexAStar returns a path
\* from the start vertex to the goal vertex whose consecutive points are adjacent
\* lattice vertices and that has hexDistance(start, goal) + 1 points; the path that
\* createHexPath hands on is that path
C32_HexPathIsShortest ==
  DistinctVertices =>
    \E path \in {HexAStar(SnapToHexVertex(hexIn[1]), SnapToHexVertex(hexIn[2]))} :
      /\ Len(path) = HexDistance(PixelToCube(hexIn[1]), PixelToCube(hexIn[2])) + 1
      /\ path[1] = CubeToPixel(PixelToCube(hexIn[1]))
      /\ path[Len(path)] = CubeToPixel(PixelToCube(hexIn[2]))
      /\ \A i \in 1..(Len(path) - 1) : AdjacentVertices(path[i], path[i + 1])
      /\ hexOut = path

\* a path of at least four points that turns: its steps do not all go one way
C32_Witness ==
  /\ DistinctVertices
  /\ Len(hexOut) >= 4
  /\ \E i \in 1..(Len(hexOut) - 2) :
       <<hexOut[i + 1][1] - hexOut[i][1], hexOut[i + 1][2] - hexOut[i][2]>>
         # <<hexOut[i + 2][1] - hexOut[i + 1][1], hexOut[i + 2][2] - hexOut[i + 1][2]>>

(***************************************************************************)
(* Specification SpecLedger: the books of the game.  The player draws,     *)
(* extends and removes lines and inserts stations, the route builder       *)
(* creates and extends lines, passengers arrive, the allocator pass runs,  *)
(* the week rolls over and the player takes the weekly reward.             *)
(***************************************************************************)
MaxLedgerOps == 3

MaxLedgerLineLen == 3

LedgerPlayerPairs == {<<0, 1>>, <<1, 2>>, <<2, 3>>}

LedgerAutoPairs == {<<0, 3>>}

LedgerSpawnPairs == {<<3, 2>>}

\* the starting games: no line; three lines drawn by the player (the fleet is out);
\* one line with a crowd at its end that wants to go where no line goes
LedgerScripts ==
  { <<>>,
    <<Connect(0, 1), ConnectNew(1, 2), ConnectNew(2, 3)>>,
    <<Spawn(3, 0), Spawn(3, 0), Spawn(3, 0), Connect(2, 3)>> }

\* what the books say before an operation
LedgerLog(op) ==
  [op |-> op, fleet |-> trainsAvailable + Len(trains), pool |-> trainsAvailable,
   removed |-> lastOp.removed \/ op = "remove"]

InitLedger ==
  /\ \E script \in LedgerScripts : WorldIs(Play(InitWorld, script))
  /\ lastOp = [op |-> "init", fleet |-> InitialTrains, pool |-> InitialTrains,
               removed |-> FALSE]
  /\ IdleRest

LedgerRest == opCount' = opCount + 1 /\ UNCHANGED <<etaOut, hexIn, hexOut>>

\* pointerup after a drag between two stations
LgConnect ==
  \E pair \in LedgerPlayerPairs, shift \in BOOLEAN :
    LET ext == Len(Extendable(World, pair[1])) > 0 /\ ~shift
    IN /\ opCount < MaxLedgerOps
       /\ (ext => Len(Extendable(World, pair[1])[1].stations) < MaxLedgerLineLen)
       /\ SetWorld(PointerUpConnect(World, pair[1], pair[2], shift))
       /\ lastOp' = LedgerLog(IF ext THEN "extend" ELSE "create")
       /\ LedgerRest

\* pointerup on station st with the line at index k selected on its first segment
LgInsert ==
  \E k \in 1..Len(lines), st \in StationIds :
    /\ opCount < MaxLedgerOps
    /\ \A j \in 1..Len(lines) : Len(lines[j].stations) < MaxLedgerLineLen
    /\ ~Includes(lines[k].stations, st)
    /\ AddStationToLineOk(World, k - 1, st, 1)
    /\ SetWorld(AddStationToLine(World, lines[k].id, st, 1))
    /\ lastOp' = LedgerLog("insert")
    /\ LedgerRest

\* the player removes a line
LgRemove ==
  \E k \in 1..Len(lines) :
    /\ opCount < MaxLedgerOps
    /\ SetWorld(RemoveLine(World, lines[k].id, <<>>))
    /\ lastOp' = LedgerLog("remove")
    /\ LedgerRest

\* the route builder creates a line
LgAutoLine ==
  \E pair \in LedgerAutoPairs :
    /\ opCount < MaxLedgerOps
    /\ SetWorld(CreateAutoLine(World, pair))
    /\ lastOp' = LedgerLog("autoLine")
    /\ LedgerRest

\* a passenger arrives
LgSpawn ==
  \E pair \in LedgerSpawnPairs :
    /\ opCount < MaxLedgerOps
    /\ SetWorld(SpawnPassenger(World, pair[1], pair[2]))
    /\ lastOp' = LedgerLog("spawn")
    /\ LedgerRest

\* the route builder's autoExtendToReduceCrowding()
LgAutoExtend ==
  /\ opCount < MaxLedgerOps
  /\ \A j \in 1..Len(lines) : Len(lines[j].stations) < MaxLedgerLineLen
  /\ \E r \in {AutoExtendToReduceCrowding(World)} :
       /\ r.ok
       /\ SetWorld(r.g)
  /\ lastOp' = LedgerLog("autoExtend")
  /\ LedgerRest

\* the allocator pass of the frame loop
LgPass ==
  /\ opCount < MaxLedgerOps
  /\ \E g \in {OptimizeTrainAllocation(World)} : SetWorld(g)
  /\ lastOp' = LedgerLog("pass")
  /\ LedgerRest

\* the week rolls over: game.day++, game.trainsAvailable++, the reward dialog opens
LgReplenish ==
  /\ opCount < MaxLedgerOps
  /\ ~paused
  /\ SetWorld([World EXCEPT !.day = @ + 1, !.trainsAvailable = @ + 1, !.paused = TRUE])
  /\ lastOp' = LedgerLog("replenish")
  /\ LedgerRest

\* the player takes one of the rewards offered
LgReward ==
  \E type \in RewardsOffered(World) :
    /\ opCount < MaxLedgerOps
    /\ paused
    /\ SetWorld(ApplyReward(World, type, 0))
    /\ lastOp' = LedgerLog("reward")
    /\ LedgerRest

NextLedger ==
  \/ LgConnect \/ LgInsert \/ LgRemove \/ LgAutoLine \/ LgSpawn \/ LgAutoExtend
  \/ LgPass \/ LgReplenish \/ LgReward

SpecLedger == InitLedger /\ [][NextLedger]_vars

\* trainsAvailable plus the number of live vehicles
Fleet == trainsAvailable + Len(trains)

\* C34: trainsAvailable plus the number of live vehicles is changed only by the weekly
\* replenishment, which adds 1: every other operation leaves the sum as it found it
C34_FleetChangedOnlyByReplenishment ==
  /\ lastOp.op = "replenish" => Fleet = lastOp.fleet + 1
  /\ lastOp.op \notin {"init", "replenish"} => Fleet = lastOp.fleet

\* the player has drawn a line while the pool was empty: the line has a vehicle that
\* came from nowhere
C34_Witness ==
  /\ lastOp.op = "create"
  /\ lastOp.pool = 0
  /\ trainsAvailable = 0
  /\ Fleet = lastOp.fleet + 1
  /\ Len(lines[Len(lines)].trains) = 1

\* the player has extended a line that has no vehicle and whose id names no index:
\* the pool paid for a vehicle that was not created
C34_WitnessPaidForNothing ==
  /\ lastOp.op = "extend"
  /\ lastOp.pool > 0
  /\ Fleet = lastOp.fleet - 1

\* the sum is kept by every operation but the player's drags
C34_HoldsExceptPlayerDrags ==
  lastOp.op \notin {"init", "replenish", "create", "extend"} => Fleet = lastOp.fleet

\* C35: the ids of the live lines are pairwise distinct and game.lines[L.id] is L for
\* every live line L, so that every lookup by line id resolves to the intended line
C35_LineIdsResolve ==
  /\ \A j, k \in 1..Len(lines) : j # k => lines[j].id # lines[k].id
  /\ \A k \in 1..Len(lines) : HasLineAt(World, lines[k].id) /\ LineAt(World, lines[k].id) = lines[k]

\* after a removal the player has drawn a line: two live lines carry the same id, and
\* the vehicles created for the new line carry ids of vehicles of the older line
C35_Witness ==
  /\ lastOp.op = "create"
  /\ \E j, k \in 1..Len(lines) :
       /\ j < k
       /\ lines[j].id = lines[k].id
       /\ lines[j].stations # lines[k].stations
       /\ \E a \in 1..Len(lines[j].trains), b \in 1..Len(lines[k].trains) :
            lines[j].trains[a] = lines[k].trains[b]

\* after a removal the id of a live line names no index at all
C35_WitnessDangling ==
  /\ lastOp.op = "remove"
  /\ \E k \in 1..Len(lines) : ~HasLineAt(World, lines[k].id)

\* as long as no line has been removed every line sits at the index its id names
C35_HoldsUntilFirstRemoval ==
  ~lastOp.removed =>
    \A k \in 1..Len(lines) : HasLineAt(World, lines[k].id) /\ LineAt(World, lines[k].id) = lines[k]

\* the indices of the live lines whose trains list names the vehicle id
ListedOn(id) == {k \in 1..Len(lines) : Includes(lines[k].trains, id)}

\* the vehicle is on the list of exactly one line, the one its lineId resolves to
AssignedToOneLine(t) ==
  /\ Cardinality(ListedOn(t.id)) = 1
  /\ HasLineAt(World, t.lineId)
  /\ Includes(LineAt(World, t.lineId).trains, t.id)

\* every entry of every line's trains list is the id of a live vehicle
NoGhostVehicle ==
  \A k \in 1..Len(lines) : \A j \in 1..Len(lines[k].trains) :
    \E ti \in 1..Len(trains) : trains[ti].id = lines[k].trains[j]

\* C36: every live vehicle is assigned to exactly one line: its id is on the trains
\* list of exactly one live line, that line is the one its lineId resolves to, and
\* no trains list names a vehicle that does not exist
C36_VehicleOnExactlyOneLine ==
  /\ \A ti \in 1..Len(trains) : AssignedToOneLine(trains[ti])
  /\ NoGhostVehicle

\* after the removal of a line the lineId of a vehicle of another line resolves to a
\* line that does not list it
C36_Witness ==
  /\ lastOp.op = "remove"
  /\ \E ti \in 1..Len(trains) :
       /\ Cardinality(ListedOn(trains[ti].id)) = 1
       /\ HasLineAt(World, trains[ti].lineId)
       /\ ~Includes(LineAt(World, trains[ti].lineId).trains, trains[ti].id)

\* the id of one vehicle is on the lists of two lines
C36_WitnessTwoLists ==
  \E ti \in 1..Len(trains) : Cardinality(ListedOn(trains[ti].id)) >= 2

\* as long as no line has been removed every vehicle is assigned to exactly one line
C36_HoldsUntilFirstRemoval ==
  ~lastOp.removed => (NoGhostVehicle /\ \A ti \in 1..Len(trains) : AssignedToOneLine(trains[ti]))

\* the line ids in use: those of the live lines and those in the stations' connections
IdsInUse ==
  {lines[k].id : k \in 1..Len(lines)}
    \cup UNION {{stations[st].connections[c] : c \in 1..Len(stations[st].connections)} :
                  st \in StationIds}

\* the station is on the station sequence of a live line with that id
OnLineWithId(st, id) ==
  \E k \in 1..Len(lines) : lines[k].id = id /\ Includes(lines[k].stations, st)

ConnectionsMatchLines ==
  \A st \in StationIds : \A id \in IdsInUse :
    Includes(stations[st].connections, id) <=> OnLineWithId(st, id)

\* C37: a line id is in a station's connections if and only if the station is on the
\* station sequence of the live line with that id
C37_ConnectionsMatchLines == lastOp.op # "init" => ConnectionsMatchLines

\* after a removal the player has inserted a station into the selected line: the
\* station is connected to the selected line's id and is not on that line
C37_Witness ==
  /\ lastOp.op = "insert"
  /\ \E st \in StationIds : \E id \in IdsInUse :
       /\ Includes(stations[st].connections, id)
       /\ ~OnLineWithId(st, id)
       /\ \E k \in 1..Len(lines) : lines[k].id = id

\* as long as no line has been removed the connections match the lines
C37_HoldsUntilFirstRemoval == ~lastOp.removed => ConnectionsMatchLines

\* a removal has left the connections matching the lines that remain
C37_WitnessRemovalMatches ==
  /\ lastOp.op = "remove"
  /\ Len(lines) >= 2
  /\ ConnectionsMatchLines

\* C40: trainsAvailable, linesAvailable and the permit count (tunnels) are never
\* negative, whatever the interleaving of player creation, insertion, extension and
\* removal, allocator passes, route-builder actions and weekly rewards
C40_CountersNeverNegative ==
  /\ trainsAvailable >= 0
  /\ linesAvailable >= 0
  /\ tunnels >= 0

\* the player has drawn a line across the river on an empty pool: the vehicle was
\* created, the pool stayed at 0 and the last permit was used
C40_Witness ==
  /\ lastOp.op = "create"
  /\ lastOp.pool = 0
  /\ trainsAvailable = 0
  /\ tunnels = 0
  /\ linesAvailable < InitWorld.linesAvailable

\* every line of the allowance has been drawn
C40_WitnessNoLinesLeft ==
  /\ lastOp.op \in {"create", "autoLine"}
  /\ linesAvailable = 0

(***************************************************************************)
(* stepReducesETA asked on the networks the player builds (routing.js)     *)
(***************************************************************************)
MaxStepOps == 1

MaxStepLineLen == 3

StepScripts ==
  { <<>>,
    <<Connect(0, 1), Connect(1, 2), Connect(2, 0)>>,
    <<Connect(0, 1), ConnectNew(2, 3)>>,
    <<Connect(0, 2), ConnectNew(2, 3), ConnectNew(3, 1)>> }

InitStep ==
  /\ \E script \in StepScripts : WorldIs(Play(InitWorld, script))
  /\ lastOp = NoOp
  /\ IdleRest

StepRest == opCount' = opCount + 1 /\ UNCHANGED <<etaOut, hexIn, hexOut>>

\* the player drags from one station to another
StConnect ==
  /\ opCount < MaxStepOps
  /\ \E from \in StationIds, hit \in StationIds, shift \in BOOLEAN :
       /\ hit # from
       /\ (shift => Len(Extendable(World, from)) > 0)
       /\ (Len(Extendable(World, from)) > 0 /\ ~shift)
            => Len(Extendable(World, from)[1].stations) < MaxStepLineLen
       /\ SetWorld(PointerUpConnect(World, from, hit, shift))
       /\ lastOp' = [op |-> "connect"]
  /\ StepRest

\* the player removes a line
StRemove ==
  /\ opCount < MaxStepOps
  /\ \E k \in 1..Len(lines) :
       /\ SetWorld(RemoveLine(World, lines[k].id, <<>>))
       /\ lastOp' = [op |-> "remove"]
  /\ StepRest

\* stepReducesETA(from, via, dest) and stepReducesETA(via, from, dest) are asked on the
\* current network, each unordered pair of stations once
StAsk ==
  /\ lastOp.op # "stepReducesETA"
  /\ \E a \in StationIds, b \in StationIds, d \in StationIds :
       /\ a <= b
       /\ lastOp' = [op |-> "stepReducesETA", from |-> a, via |-> b, dest |-> d,
                     there |-> StepReducesETA(lines, a, b, d),
                     back |-> StepReducesETA(lines, b, a, d)]
  /\ UNCHANGED <<worldVars, opCount, etaOut, hexIn, hexOut>>

NextStep == StConnect \/ StRemove \/ StAsk

SpecStep == InitStep /\ [][NextStep]_vars

\* C38: stepReducesETA is never true in both directions of one edge: for all stations
\* a and b and every destination d, stepReducesETA(a, b, d) and stepReducesETA(b, a, d)
\* do not both hold on the same line network
C38_StepReducesOneWayOnly ==
  lastOp.op = "stepReducesETA" => ~(lastOp.there /\ lastOp.back)

\* on a network the player has changed, a step along an edge of a line reduces the
\* ETA in one direction and not in the other
C38_Witness ==
  /\ lastOp.op = "stepReducesETA"
  /\ opCount > 0
  /\ lastOp.from # lastOp.via
  /\ ConsecutiveOnSomeLine(lines, lastOp.from, lastOp.via)
  /\ lastOp.there # lastOp.back

\* a step between two stations that no line joins reduces the ETA one way
C38_WitnessNoEdge ==
  /\ lastOp.op = "stepReducesETA"
  /\ ~ConsecutiveOnSomeLine(lines, lastOp.from, lastOp.via)
  /\ (lastOp.back \/ lastOp.there)

\* on a network with a cycle no step reduces the ETA both ways either
C38_WitnessCycle ==
  /\ lastOp.op = "stepReducesETA"
  /\ \E k \in 1..Len(lines) :
       /\ Len(lines[k].stations) >= 4
       /\ lines[k].stations[1] = lines[k].stations[Len(lines[k].stations)]
  /\ (lastOp.back \/ lastOp.there)

(***************************************************************************)
(* The terminal transition of a sweep (passengers.js, game.endGame)        *)
(***************************************************************************)
\* the entries of sweepLog at which the game turned over: the station bodies that
\* made the first endGame call of the tick
FirstFailures ==
  {i \in 1..Len(sweepLog) :
     sweepLog[i].gameOver /\ (i = 1 \/ ~sweepLog[i - 1].gameOver)}

\* the station body logged at i is the last one of its sweep (a sweep starts at station 0)
LastOfItsSweep(i) == i = Len(sweepLog) \/ sweepLog[i + 1].st = 0

\* C39: within one sweep the terminal transition happens at most once: after the first
\* overcrowding or missed-connection failure no further passenger or station is
\* evaluated, endGame is not called again, and the recorded game-over reason is that
\* of the first failure detected
C39_TerminalTransitionOnce ==
  lastOp.op = "step" =>
    \A i \in FirstFailures :
      /\ LastOfItsSweep(i)
      /\ sweepLog[i].ended \/ sweepLog[i].missedCalls = 1
      /\ goReason = sweepLog[i].goReason

\* a sweep has found a missed connection at one station and has gone on to the
\* stations after it
C39_Witness ==
  /\ lastOp.op = "step"
  /\ \E i \in FirstFailures :
       /\ ~sweepLog[i].ended
       /\ sweepLog[i].missedCalls >= 1
       /\ ~LastOfItsSweep(i)

\* endGame has been called for two passengers of one queue
C39_WitnessTwoCalls ==
  /\ lastOp.op = "step"
  /\ \E i \in FirstFailures : sweepLog[i].missedCalls >= 2

\* a later station of the same sweep has replaced the reason of the first failure
C39_WitnessReasonReplaced ==
  /\ lastOp.op = "step"
  /\ \E i \in FirstFailures : goReason # sweepLog[i].goReason

\* a sweep that ends the game by overcrowding stops at that station
C39_OvercrowdingStopsTheSweep ==
  lastOp.op = "step" =>
    \A i \in 1..Len(sweepLog) :
      sweepLog[i].ended =>
        /\ LastOfItsSweep(i)
        /\ sweepLog[i].goReason = [kind |-> "overcrowded", station |-> sweepLog[i].st]

\* a sweep has ended the game by overcrowding before its last station
C39_WitnessOvercrowdingStops ==
  /\ lastOp.op = "step"
  /\ \E i \in 1..Len(sweepLog) : sweepLog[i].ended /\ sweepLog[i].st < NumStations - 1

(***************************************************************************)
(* Specification SpecPax: where the passengers are.  Ticks of the headless *)
(* simulation (spawn, vehicle motion with arrivals and transfers, the      *)
(* sweep with its emergency relocation) and line removals, on games in     *)
(* which lines have been drawn and one has been removed.                   *)
(***************************************************************************)
MaxPaxOps == 3

PaxDts == {5500, 21000, 90000}

PaxSpawnPairs == {<<0, 2>>, <<1, 0>>}

\* the stations Math.random draws for the passengers of a removed line
PaxDumpStations == {0, 3}

\* as many draws as the vehicles of a line can carry passengers
PaxMaxDump == 40

\* passengers waiting at station 1 when the lines of the third script are drawn
PaxCrowd == 11

\* in the third script five lines are drawn, two of them on an empty pool, and the
\* first is removed
PaxScripts ==
  { <<Spawn(0, 2), Spawn(0, 3), Connect(2, 3), ConnectNew(0, 1), ConnectNew(1, 2), Remove(0)>>,
    <<Spawn(0, 2), Spawn(1, 2), Spawn(1, 0), Connect(0, 1), ConnectNew(1, 2), ConnectNew(2, 3)>>,
    [i \in 1..PaxCrowd |-> Spawn(1, 0)]
       \o <<Connect(0, 1), ConnectNew(1, 2), ConnectNew(2, 3), ConnectNew(0, 1), ConnectNew(0, 1),
            Remove(0)>> }

\* the ids of the passengers of a sequence of passenger records
IdsOf(ps) == {ps[i].id : i \in 1..Len(ps)}

\* the ids of the passengers waiting in the station queues
QueuedIds == UNION {IdsOf(stations[st].queue) : st \in StationIds}

\* the ids of the passengers aboard the vehicles
AboardIds == UNION {IdsOf(trains[ti].passengers) : ti \in 1..Len(trains)}

\* the number of places (queue positions and seats) that hold the passenger id
Occurrences(ps, id) == Cardinality({i \in 1..Len(ps) : ps[i].id = id})

PlacesOf(id) ==
  SumSeq([i \in 1..NumStations |-> Occurrences(stations[i - 1].queue, id)])
  + SumSeq([ti \in 1..Len(trains) |-> Occurrences(trains[ti].passengers, id)])

\* the ids aboard the vehicles createTrain put on the line
AboardLine(line) ==
  UNION {IdsOf(trains[ti].passengers) :
           ti \in {i \in 1..Len(trains) : \E j \in 1..Len(line.serials) :
                                            line.serials[j] = trains[i].serial}}

PaxLog(op, aboard) ==
  [op |-> op, held |-> QueuedIds \cup AboardIds, spawned |-> totalPassengers, aboard |-> aboard]

InitPax ==
  /\ \E script \in PaxScripts : WorldIs(Play(InitWorld, script))
  /\ lastOp = [op |-> "init", held |-> {}, spawned |-> 0, aboard |-> {}]
  /\ IdleRest

PaxRest == opCount' = opCount + 1 /\ UNCHANGED <<etaOut, hexIn, hexOut>>

\* one iteration of simulateWeeks
PxStep ==
  /\ opCount < MaxPaxOps
  /\ ~gameOver
  /\ \E dt \in PaxDts, pair \in PaxSpawnPairs :
       /\ SpawnDrawOk(SimBeforeSpawn(World, dt, Draws(pair[1], pair[2])), pair)
       /\ SetWorld(SimStep(World, dt, Draws(pair[1], pair[2])))
       /\ lastOp' = PaxLog("step", {})
  /\ PaxRest

\* removeLine; every passenger aboard is put down at station `w`
PxRemove ==
  /\ opCount < MaxPaxOps
  /\ ~gameOver
  /\ \E k \in 1..Len(lines), w \in PaxDumpStations :
       /\ SetWorld(RemoveLine(World, lines[k].id, [i \in 1..PaxMaxDump |-> w]))
       /\ lastOp' = PaxLog("remove", AboardLine(lines[k]))
  /\ PaxRest

NextPax == PxStep \/ PxRemove

SpecPax == InitPax /\ [][NextPax]_vars

\* every passenger held anywhere is held in one place only
HeldOnce == \A id \in QueuedIds \cup AboardIds : PlacesOf(id) = 1

\* a tick loses no passenger but those it delivers or discards, and adds the one it
\* spawns; a removal neither adds nor loses a passenger
NoneLost ==
  /\ lastOp.op = "remove" => (QueuedIds \cup AboardIds) = lastOp.held
  /\ lastOp.op = "step" =>
       (QueuedIds \cup AboardIds) \subseteq (lastOp.held \cup (lastOp.spawned..(totalPassengers - 1)))

\* the passengers that rode the vehicles of the removed line are in station queues
RemovedLineEmptied == lastOp.op = "remove" => lastOp.aboard \subseteq QueuedIds

\* C33: across ticks, arrivals, transfers, emergency relocation and line removal every
\* passenger spawned and not yet delivered or discarded is held in exactly one place,
\* a station queue or a vehicle; in particular the passengers carried by the vehicles
\* of a removed line all end up in station queues
C33_PassengerInOnePlace ==
  /\ HeldOnce
  /\ NoneLost
  /\ RemovedLineEmptied

\* a line has been removed and a passenger that rode one of its vehicles is still
\* aboard that vehicle, which is still in game.trains
C33_Witness ==
  /\ lastOp.op = "remove"
  /\ \E id \in lastOp.aboard : id \in AboardIds /\ id \notin QueuedIds

\* the passengers of a removed line's vehicles have been put down in a station queue
C33_WitnessPutDown ==
  /\ lastOp.op = "remove"
  /\ lastOp.aboard # {}
  /\ lastOp.aboard \subseteq QueuedIds

\* the part of the claim that does not depend on which vehicles removeLine removes
C33_HeldOnceAndNoneLost == HeldOnce /\ NoneLost

\* a tick has moved a waiting passenger into a vehicle
C33_WitnessBoarded ==
  /\ lastOp.op = "step"
  /\ \E id \in lastOp.held : id \in AboardIds

\* the emergency handler of a sweep has moved a waiting passenger to another station
C33_WitnessRelocated ==
  /\ lastOp.op = "step"
  /\ \E st \in StationIds : \E i \in 1..Len(stations[st].queue) :
       /\ stations[st].queue[i].transferCount = 0
       /\ stations[st].queue[i].transferReadyAt > stations[st].queue[i].spawnTime
       /\ stations[st].queue[i].id \in lastOp.held

\* a vehicle has put a passenger down at a station to change lines
C33_WitnessTransfer ==
  /\ lastOp.op = "step"
  /\ \E st \in StationIds : \E i \in 1..Len(stations[st].queue) :
       stations[st].queue[i].transferCount > 0
====
